---------------------------- MODULE Spec2Model ----------------------------
(***************************************************************************)
(* A model of the mini-typescript compiler: the lexer (src/lexer.ts), the  *)
(* parser (src/parser.ts), the type checker (src/checker.ts), the emitter  *)
(* (src/emitter.ts) and the driver (src/compiler.ts).                      *)
(*                                                                         *)
(* Conventions.  A character is a one-character string and a source text   *)
(* or a token value is a sequence of characters, so that the lexer really  *)
(* scans and the emitter really prints.  Cursor positions are 0-based as   *)
(* in the code; the character under cursor p of src is src[p + 1].  A      *)
(* token is a record [type, value, line]; the column field of the code is  *)
(* written but never read by the compiler and is left out.                 *)
(*                                                                         *)
(* A function of the code that can throw is an operator whose result has   *)
(* a field st: "ok" for a normal return, "throw" for an exception (msg     *)
(* holds its message), and, for the parser, "hang" for a loop that was     *)
(* entered in a state from which it never exits.                           *)
(***************************************************************************)
EXTENDS Integers, Sequences, FiniteSets, TLC

VARIABLES
    sourceCode, \* the text handed to tokenize / compile
    fragments,  \* number of fragments the text was put together from
    options,    \* the options argument of compile
    pc,         \* position of the run: "build", then the stage to run next
    lexOut,     \* result of tokenize(source)
    parseOut,   \* result of parse(tokens)
    checkOut,   \* result of typeCheck(ast)
    emitOut,    \* result of emit(ast)
    result,     \* the CompileResult under construction / returned
    stages,     \* the stages that were run, in order
    reLex,      \* result of tokenize(output): the emitted text read back
    reParse,    \* result of parse(tokenize(output))
    srcType,    \* first argument of isAssignable
    tgtType,    \* second argument of isAssignable
    assignOut,  \* result of isAssignable(srcType, tgtType)
    checker,    \* the TypeChecker object during check(program)
    checked     \* number of statements of the program the fifth pass has checked

vars == <<sourceCode, fragments, options, pc, lexOut, parseOut, checkOut, emitOut, result,
          stages, reLex, reParse, srcType, tgtType, assignOut, checker, checked>>

runVars == <<fragments, options, parseOut, checkOut, emitOut, result, stages, reLex, reParse>>
typeVars == <<srcType, tgtType, assignOut>>
checkVars == <<checker, checked>>

(* The value of a variable that has not been computed yet. *)
None == [st |-> "none"]

(***************************************************************************)
(* Characters                                                              *)
(***************************************************************************)
Range(s) == { s[i] : i \in 1..Len(s) }

(* The backtick, which cannot be written inside a string of this notation. *)
BACKTICK == "backtick"
(* "\0", what peek() and peekNext() return beyond the end of the source. *)
NUL == "NUL"
(* What `value += this.advance()` appends when advance() runs beyond the   *)
(* end of the source: source[pos] is undefined and is printed as text.     *)
UNDEFINED == <<"u", "n", "d", "e", "f", "i", "n", "e", "d">>

LowerChars == <<"a", "b", "c", "d", "e", "f", "g", "h", "i", "j", "k", "l", "m", "n", "o", "p", "q", "r", "s", "t", "u", "v", "w", "x", "y", "z">>
UpperChars == <<"A", "B", "C", "D", "E", "F", "G", "H", "I", "J", "K", "L", "M", "N", "O", "P", "Q", "R", "S", "T", "U", "V", "W", "X", "Y", "Z">>
DigitChars == <<"0", "1", "2", "3", "4", "5", "6", "7", "8", "9">>

isAlpha(c) == c \in Range(LowerChars) \cup Range(UpperChars) \cup {"_", "$"}
isDigit(c) == c \in Range(DigitChars)
isHexDigit(c) == c \in Range(DigitChars) \cup Range(<<"a", "b", "c", "d", "e", "f", "A", "B", "C", "D", "E", "F">>)
isOctalDigit(c) == c \in Range(<<"0", "1", "2", "3", "4", "5", "6", "7">>)
isAlphaNumeric(c) == isAlpha(c) \/ isDigit(c)

toLowerCase(c) ==
    IF \E i \in 1..Len(UpperChars) : UpperChars[i] = c
    THEN LowerChars[CHOOSE i \in 1..Len(UpperChars) : UpperChars[i] = c]
    ELSE c

(* lexer.ts KEYWORDS: the reserved words and the token type of each. *)
KEYWORDS ==
    { <<<<"l", "e", "t">>, "Let">>, <<<<"c", "o", "n", "s", "t">>, "Const">>, <<<<"v", "a", "r">>, "Var">>,
      <<<<"f", "u", "n", "c", "t", "i", "o", "n">>, "Function">>, <<<<"r", "e", "t", "u", "r", "n">>, "Return">>, <<<<"a", "s", "y", "n", "c">>, "Async">>,
      <<<<"a", "w", "a", "i", "t">>, "Await">>, <<<<"y", "i", "e", "l", "d">>, "Yield">>, <<<<"i", "f">>, "If">>,
      <<<<"e", "l", "s", "e">>, "Else">>, <<<<"w", "h", "i", "l", "e">>, "While">>, <<<<"f", "o", "r">>, "For">>,
      <<<<"d", "o">>, "Do">>, <<<<"b", "r", "e", "a", "k">>, "Break">>, <<<<"c", "o", "n", "t", "i", "n", "u", "e">>, "Continue">>,
      <<<<"s", "w", "i", "t", "c", "h">>, "Switch">>, <<<<"c", "a", "s", "e">>, "Case">>, <<<<"d", "e", "f", "a", "u", "l", "t">>, "Default">>,
      <<<<"t", "h", "r", "o", "w">>, "Throw">>, <<<<"t", "r", "y">>, "Try">>, <<<<"c", "a", "t", "c", "h">>, "Catch">>,
      <<<<"f", "i", "n", "a", "l", "l", "y">>, "Finally">>, <<<<"c", "l", "a", "s", "s">>, "Class">>, <<<<"e", "x", "t", "e", "n", "d", "s">>, "Extends">>,
      <<<<"i", "m", "p", "l", "e", "m", "e", "n", "t", "s">>, "Implements">>, <<<<"n", "e", "w">>, "New">>, <<<<"t", "h", "i", "s">>, "This">>,
      <<<<"s", "u", "p", "e", "r">>, "Super">>, <<<<"c", "o", "n", "s", "t", "r", "u", "c", "t", "o", "r">>, "Constructor">>,
      <<<<"p", "u", "b", "l", "i", "c">>, "Public">>, <<<<"p", "r", "i", "v", "a", "t", "e">>, "Private">>,
      <<<<"p", "r", "o", "t", "e", "c", "t", "e", "d">>, "Protected">>, <<<<"s", "t", "a", "t", "i", "c">>, "Static">>,
      <<<<"r", "e", "a", "d", "o", "n", "l", "y">>, "Readonly">>, <<<<"a", "b", "s", "t", "r", "a", "c", "t">>, "Abstract">>, <<<<"g", "e", "t">>, "Get">>,
      <<<<"s", "e", "t">>, "Set">>, <<<<"i", "n", "t", "e", "r", "f", "a", "c", "e">>, "Interface">>, <<<<"t", "y", "p", "e">>, "Type">>,
      <<<<"e", "n", "u", "m">>, "Enum">>, <<<<"n", "a", "m", "e", "s", "p", "a", "c", "e">>, "Namespace">>, <<<<"m", "o", "d", "u", "l", "e">>, "Module">>,
      <<<<"d", "e", "c", "l", "a", "r", "e">>, "Declare">>, <<<<"n", "u", "m", "b", "e", "r">>, "NumberType">>,
      <<<<"s", "t", "r", "i", "n", "g">>, "StringType">>, <<<<"b", "o", "o", "l", "e", "a", "n">>, "BooleanType">>,
      <<<<"v", "o", "i", "d">>, "Void">>, <<<<"n", "u", "l", "l">>, "Null">>, <<<<"u", "n", "d", "e", "f", "i", "n", "e", "d">>, "Undefined">>,
      <<<<"a", "n", "y">>, "Any">>, <<<<"u", "n", "k", "n", "o", "w", "n">>, "Unknown">>, <<<<"n", "e", "v", "e", "r">>, "Never">>,
      <<<<"o", "b", "j", "e", "c", "t">>, "Object">>, <<<<"s", "y", "m", "b", "o", "l">>, "Symbol">>, <<<<"b", "i", "g", "i", "n", "t">>, "Bigint">>,
      <<<<"t", "r", "u", "e">>, "True">>, <<<<"f", "a", "l", "s", "e">>, "False">>, <<<<"t", "y", "p", "e", "o", "f">>, "Typeof">>,
      <<<<"k", "e", "y", "o", "f">>, "Keyof">>, <<<<"i", "n", "f", "e", "r">>, "Infer">>, <<<<"i", "n">>, "In">>,
      <<<<"o", "f">>, "Of">>, <<<<"i", "n", "s", "t", "a", "n", "c", "e", "o", "f">>, "Instanceof">>, <<<<"d", "e", "l", "e", "t", "e">>, "Delete">>,
      <<<<"a", "s">>, "As">>, <<<<"i", "m", "p", "o", "r", "t">>, "Import">>, <<<<"e", "x", "p", "o", "r", "t">>, "Export">>,
      <<<<"f", "r", "o", "m">>, "From">> }

(* KEYWORDS[value] ?? TokenType.Identifier.  (Names inherited from          *)
(* Object.prototype, such as toString, are outside the modelled inputs.)   *)
KeywordType(value) ==
    IF \E k \in KEYWORDS : k[1] = value
    THEN (CHOOSE k \in KEYWORDS : k[1] = value)[2]
    ELSE "Identifier"

(***************************************************************************)
(* Lexer (src/lexer.ts)                                                    *)
(*                                                                         *)
(* The state of a Lexer object is a record L: pos and line are its fields, *)
(* tokens its token array, st/msg the exception that ended the scan.  Two  *)
(* history fields record what the code itself does not: openTemplate is    *)
(* set when scanTemplateExpression leaves its loop at the end of the input *)
(* with the `${` still open, openComment when the block comment loop of    *)
(* skipWhitespaceAndComments ends at the end of the input without `*/`.    *)
(***************************************************************************)
LexerInit ==
    [pos |-> 0, line |-> 1, tokens |-> <<>>, st |-> "ok", msg |-> "",
     openTemplate |-> FALSE, openComment |-> FALSE]

isAtEnd(src, L) == L.pos >= Len(src)
CharAt(src, p) == IF p < Len(src) THEN src[p + 1] ELSE NUL
peek(src, L) == CharAt(src, L.pos)
peekNext(src, L) == CharAt(src, L.pos + 1)
(* The lexer after advance(), and the text that `value += advance()` adds. *)
advance(L) == [L EXCEPT !.pos = @ + 1]
advanced(src, L) == IF L.pos < Len(src) THEN <<src[L.pos + 1]>> ELSE UNDEFINED
(* The characters of src from cursor p up to, not including, cursor q. *)
Slice(src, p, q) == SubSeq(src, p + 1, q)

LexThrow(L, m) == [L EXCEPT !.st = "throw", !.msg = m]
PushToken(L, t, v) ==
    [L EXCEPT !.tokens = Append(@, [type |-> t, value |-> v, line |-> L.line])]

(* The cursor after `while (!isAtEnd() && isX(peek())) advance()`, for the *)
(* character class S, started at cursor p.                                 *)
RECURSIVE SpanEnd(_, _, _)
SpanEnd(src, p, S) ==
    IF p < Len(src) /\ src[p + 1] \in S THEN SpanEnd(src, p + 1, S) ELSE p

RECURSIVE SkipLineComment(_, _)
SkipLineComment(src, L) ==
    IF ~isAtEnd(src, L) /\ peek(src, L) # "\n"
    THEN SkipLineComment(src, advance(L))
    ELSE L

(* The loop at lexer.ts 668-677 and the conditional consumption of the     *)
(* closing star and slash at 678-681.                                      *)
RECURSIVE SkipBlockComment(_, _)
SkipBlockComment(src, L) ==
    IF ~isAtEnd(src, L) /\ ~(peek(src, L) = "*" /\ peekNext(src, L) = "/")
    THEN SkipBlockComment(src,
            IF peek(src, L) = "\n"
            THEN [advance(L) EXCEPT !.line = @ + 1]
            ELSE advance(L))
    ELSE IF ~isAtEnd(src, L)
         THEN advance(advance(L))
         ELSE [L EXCEPT !.openComment = TRUE]

RECURSIVE skipWhitespaceAndComments(_, _)
skipWhitespaceAndComments(src, L) ==
    IF isAtEnd(src, L) THEN L
    ELSE LET char == peek(src, L) IN
         IF char \in {" ", "\t", "\r"}
         THEN skipWhitespaceAndComments(src, advance(L))
         ELSE IF char = "\n"
         THEN skipWhitespaceAndComments(src, [advance(L) EXCEPT !.line = @ + 1])
         ELSE IF char = "/" /\ peekNext(src, L) = "/"
         THEN skipWhitespaceAndComments(src, SkipLineComment(src, L))
         ELSE IF char = "/" /\ peekNext(src, L) = "*"
         THEN skipWhitespaceAndComments(src,
                  SkipBlockComment(src, advance(advance(L))))
         ELSE L

scanIdentifier(src, L) ==
    LET e == SpanEnd(src, L.pos, { c \in Range(src) : isAlphaNumeric(c) })
        value == Slice(src, L.pos, e)
    IN  PushToken([L EXCEPT !.pos = e], KeywordType(value), value)

scanNumber(src, L) ==
    LET p == L.pos
        next == toLowerCase(peekNext(src, L))
        Digits == { c \in Range(src) : isDigit(c) }
        radixEnd ==
            IF next = "x"
            THEN SpanEnd(src, p + 2, { c \in Range(src) : isHexDigit(c) })
            ELSE IF next = "b"
            THEN SpanEnd(src, p + 2, {"0", "1"})
            ELSE SpanEnd(src, p + 2, { c \in Range(src) : isOctalDigit(c) })
        e1 == SpanEnd(src, p, Digits)
        e2 == IF CharAt(src, e1) = "." /\ isDigit(CharAt(src, e1 + 1))
              THEN SpanEnd(src, e1 + 1, Digits)
              ELSE e1
        e3 == IF toLowerCase(CharAt(src, e2)) = "e"
              THEN SpanEnd(src,
                       IF CharAt(src, e2 + 1) \in {"+", "-"}
                       THEN e2 + 2 ELSE e2 + 1,
                       Digits)
              ELSE e2
        e4 == IF CharAt(src, e3) = "n" THEN e3 + 1 ELSE e3
        e  == IF peek(src, L) = "0" /\ next \in {"x", "b", "o"}
              THEN radixEnd ELSE e4
    IN  PushToken([L EXCEPT !.pos = e], "NumberLiteral", Slice(src, p, e))

(* The longest prefix of s made of hexadecimal digits: the part of the     *)
(* text that parseInt(s, 16) reads.                                        *)
HexPrefix(s) ==
    SubSeq(s, 1, SpanEnd(s, 0, { c \in Range(s) : isHexDigit(c) }))

RECURSIVE JoinChars(_)
JoinChars(s) == IF s = <<>> THEN "" ELSE Head(s) \o JoinChars(Tail(s))

(* String.fromCodePoint(parseInt(unicode, 16)) of the \u escape: code     *)
(* point 0 is the character NUL, any other is named by its digits without  *)
(* leading zeros ("U+41"); a text with no leading hexadecimal digit parses *)
(* to NaN, for which fromCodePoint throws a RangeError.                    *)
CodePointChar(unicode) ==
    LET h == HexPrefix(unicode)
        lead == SpanEnd(h, 0, {"0"})
    IN  IF lead = Len(h) THEN NUL
        ELSE "U+" \o JoinChars(SubSeq(h, lead + 1, Len(h)))

(* The text read by the \u escape (lexer.ts 284-295) from cursor p, as     *)
(* <<unicode, cursor after it>>.                                           *)
UnicodeText(src, p) ==
    IF CharAt(src, p) = "{"
    THEN LET e == SpanEnd(src, p + 1, Range(src) \ {"}"})
         IN  <<Slice(src, p + 1, e), e + 1>>
    ELSE <<advanced(src, [pos |-> p]) \o advanced(src, [pos |-> p + 1])
             \o advanced(src, [pos |-> p + 2]) \o advanced(src, [pos |-> p + 3]),
           p + 4>>

(* The loop of scanString, with the value read so far. *)
RECURSIVE StringBody(_, _, _, _)
StringBody(src, L, quote, value) ==
    IF ~isAtEnd(src, L) /\ peek(src, L) # quote
    THEN IF peek(src, L) = "\\"
         THEN LET escaped == advanced(src, advance(L))
                  L2 == advance(advance(L))
                  u == UnicodeText(src, L2.pos)
              IN  IF escaped = <<"n">> THEN StringBody(src, L2, quote, value \o <<"\n">>)
                  ELSE IF escaped = <<"t">> THEN StringBody(src, L2, quote, value \o <<"\t">>)
                  ELSE IF escaped = <<"r">> THEN StringBody(src, L2, quote, value \o <<"\r">>)
                  ELSE IF escaped = <<"0">> THEN StringBody(src, L2, quote, value \o <<NUL>>)
                  ELSE IF escaped = <<"u">>
                  THEN IF HexPrefix(u[1]) = <<>>
                       THEN LexThrow([L2 EXCEPT !.pos = u[2]], "Invalid code point NaN")
                       ELSE StringBody(src, [L2 EXCEPT !.pos = u[2]], quote,
                                value \o <<CodePointChar(u[1])>>)
                  ELSE StringBody(src, L2, quote, value \o escaped)
         ELSE IF peek(src, L) = "\n"
         THEN LexThrow(L, "Unterminated string")
         ELSE StringBody(src, advance(L), quote, value \o <<peek(src, L)>>)
    ELSE IF isAtEnd(src, L)
         THEN LexThrow(L, "Unterminated string")
         ELSE PushToken(advance(L), "StringLiteral", value)

scanString(src, L, quote) == StringBody(src, advance(L), quote, <<>>)

(* match(expected) at cursor p. *)
match(src, p, expected) == p < Len(src) /\ src[p + 1] = expected

(* The switch of scanOperatorOrPunctuation for the character at cursor p:  *)
(* <<number of characters consumed, token type>>, the type "throw" where   *)
(* the code throws.                                                        *)
OperatorAt(src, p) ==
    LET char == src[p + 1]
        m1(c) == match(src, p + 1, c)
        m2(c) == match(src, p + 2, c)
    IN  CASE char = "+" -> IF m1("+") THEN <<2, "PlusPlus">>
                           ELSE IF m1("=") THEN <<2, "PlusEquals">> ELSE <<1, "Plus">>
          [] char = "-" -> IF m1("-") THEN <<2, "MinusMinus">>
                           ELSE IF m1("=") THEN <<2, "MinusEquals">> ELSE <<1, "Minus">>
          [] char = "*" -> IF m1("*") THEN <<2, "StarStar">>
                           ELSE IF m1("=") THEN <<2, "StarEquals">> ELSE <<1, "Star">>
          [] char = "/" -> IF m1("=") THEN <<2, "SlashEquals">> ELSE <<1, "Slash">>
          [] char = "%" -> IF m1("=") THEN <<2, "PercentEquals">> ELSE <<1, "Percent">>
          [] char = "(" -> <<1, "LeftParen">>
          [] char = ")" -> <<1, "RightParen">>
          [] char = "{" -> <<1, "LeftBrace">>
          [] char = "}" -> <<1, "RightBrace">>
          [] char = "[" -> <<1, "LeftBracket">>
          [] char = "]" -> <<1, "RightBracket">>
          [] char = ":" -> <<1, "Colon">>
          [] char = ";" -> <<1, "Semicolon">>
          [] char = "," -> <<1, "Comma">>
          [] char = "@" -> <<1, "At">>
          [] char = "." -> IF m1(".")
                           THEN IF m2(".") THEN <<3, "Spread">> ELSE <<2, "throw">>
                           ELSE <<1, "Dot">>
          [] char = "=" -> IF m1("=")
                           THEN IF m2("=") THEN <<3, "EqualsEqualsEquals">>
                                ELSE <<2, "EqualsEquals">>
                           ELSE IF m1(">") THEN <<2, "Arrow">> ELSE <<1, "Equals">>
          [] char = "!" -> IF m1("=")
                           THEN IF m2("=") THEN <<3, "BangEqualsEquals">>
                                ELSE <<2, "BangEquals">>
                           ELSE <<1, "Bang">>
          [] char = "<" -> IF m1("=") THEN <<2, "LessThanEquals">>
                           ELSE IF m1("<") THEN <<2, "LessThanLessThan">>
                           ELSE <<1, "LessThan">>
          [] char = ">" -> IF m1("=") THEN <<2, "GreaterThanEquals">>
                           ELSE IF m1(">")
                           THEN IF m2(">") THEN <<3, "GreaterThanGreaterThanGreaterThan">>
                                ELSE <<2, "GreaterThanGreaterThan">>
                           ELSE <<1, "GreaterThan">>
          [] char = "&" -> IF m1("&") THEN <<2, "AmpersandAmpersand">>
                           ELSE <<1, "Ampersand">>
          [] char = "|" -> IF m1("|") THEN <<2, "PipePipe">> ELSE <<1, "Pipe">>
          [] char = "^" -> <<1, "Caret">>
          [] char = "~" -> <<1, "Tilde">>
          [] char = "?" -> IF m1(".") THEN <<2, "QuestionDot">>
                           ELSE IF m1("?") THEN <<2, "QuestionQuestion">>
                           ELSE <<1, "Question">>
          [] OTHER -> <<1, "throw">>

scanOperatorOrPunctuation(src, L) ==
    LET op == OperatorAt(src, L.pos)
        L1 == [L EXCEPT !.pos = @ + op[1]]
    IN  IF op[2] = "throw"
        THEN LexThrow(L1, IF op[1] = 2 THEN "Unexpected token '..'"
                          ELSE "Unexpected character")
        ELSE PushToken(L1, op[2], Slice(src, L.pos, L.pos + op[1]))

RECURSIVE scanToken(_, _)
RECURSIVE TemplateBody(_, _, _)
RECURSIVE scanTemplateExpression(_, _, _)
RECURSIVE TemplateRestBody(_, _, _)

(* The loop of scanTemplateLiteral after the opening backtick, with the    *)
(* cooked value read so far.                                               *)
TemplateBody(src, L, value) ==
    IF isAtEnd(src, L) THEN LexThrow(L, "Unterminated template literal")
    ELSE IF peek(src, L) = BACKTICK
    THEN PushToken(advance(L), "TemplateLiteral", value)
    ELSE IF peek(src, L) = "$" /\ peekNext(src, L) = "{"
    THEN scanTemplateExpression(src,
             advance(advance(PushToken(L, "TemplateHead", value))), 1)
    ELSE IF peek(src, L) = "\\"
    THEN LET escaped == advanced(src, advance(L))
             cooked == IF escaped = <<"n">> THEN <<"\n">>
                       ELSE IF escaped = <<"t">> THEN <<"\t">>
                       ELSE escaped
         IN  TemplateBody(src, advance(advance(L)), value \o cooked)
    ELSE IF peek(src, L) = "\n"
    THEN TemplateBody(src, [advance(L) EXCEPT !.line = @ + 1], value \o <<"\n">>)
    ELSE TemplateBody(src, advance(L), value \o <<peek(src, L)>>)

scanTemplateLiteral(src, L) == TemplateBody(src, advance(L), <<>>)

(* The loop of scanTemplateMiddleOrTail, with the value read so far. *)
TemplateRestBody(src, L, value) ==
    IF isAtEnd(src, L) THEN LexThrow(L, "Unterminated template literal")
    ELSE IF peek(src, L) = BACKTICK
    THEN PushToken(advance(L), "TemplateTail", value)
    ELSE IF peek(src, L) = "$" /\ peekNext(src, L) = "{"
    THEN scanTemplateExpression(src,
             advance(advance(PushToken(L, "TemplateMiddle", value))), 1)
    ELSE IF peek(src, L) = "\\"
    THEN TemplateRestBody(src, advance(advance(L)),
             value \o advanced(src, advance(L)))
    ELSE IF peek(src, L) = "\n"
    THEN TemplateRestBody(src, [advance(L) EXCEPT !.line = @ + 1], value \o <<"\n">>)
    ELSE TemplateRestBody(src, advance(L), value \o <<peek(src, L)>>)

scanTemplateMiddleOrTail(src, L) == TemplateRestBody(src, L, <<>>)

(* A scanTemplateExpression that ends the interpolation at the first       *)
(* closing brace, whatever braces were opened before it.                   *)
scanTemplateExpression_FirstBrace(src, L, braceCount) ==
    IF ~isAtEnd(src, L) /\ braceCount > 0
    THEN LET L1 == scanToken(src, L)
             lastToken == L1.tokens[Len(L1.tokens)]
         IN  IF L1.st = "throw" THEN L1
             ELSE IF lastToken.type = "RightBrace"
             THEN scanTemplateMiddleOrTail(src,
                      [L1 EXCEPT !.tokens = SubSeq(@, 1, Len(@) - 1)])
             ELSE scanTemplateExpression(src, L1, braceCount)
    ELSE [L EXCEPT !.openTemplate = TRUE]

(* scanTemplateExpression from the head of its while loop with the current *)
(* braceCount.  The last token is inspected after every scanToken, also    *)
(* when that call pushed none.  When the loop condition fails the function *)
(* returns normally.                                                       *)
scanTemplateExpression(src, L, braceCount) ==
    IF ~isAtEnd(src, L) /\ braceCount > 0
    THEN LET L1 == scanToken(src, L)
             lastToken == L1.tokens[Len(L1.tokens)]
         IN  IF L1.st = "throw" THEN L1
             ELSE IF lastToken.type = "LeftBrace"
             THEN scanTemplateExpression(src, L1, braceCount + 1)
             ELSE IF lastToken.type = "RightBrace"
             THEN IF braceCount - 1 = 0
                  THEN scanTemplateMiddleOrTail(src,
                           [L1 EXCEPT !.tokens = SubSeq(@, 1, Len(@) - 1)])
                  ELSE scanTemplateExpression(src, L1, braceCount - 1)
             ELSE scanTemplateExpression(src, L1, braceCount)
    ELSE [L EXCEPT !.openTemplate = TRUE]

scanToken(src, L) ==
    LET L0 == skipWhitespaceAndComments(src, L)
        char == peek(src, L0)
    IN  IF isAtEnd(src, L0) THEN L0
        ELSE IF isAlpha(char) THEN scanIdentifier(src, L0)
        ELSE IF isDigit(char) THEN scanNumber(src, L0)
        ELSE IF char = "\"" \/ char = "'" THEN scanString(src, L0, char)
        ELSE IF char = BACKTICK THEN scanTemplateLiteral(src, L0)
        ELSE scanOperatorOrPunctuation(src, L0)

(* The loop of tokenize. *)
RECURSIVE TokenizeLoop(_, _)
TokenizeLoop(src, L) ==
    IF L.st = "throw" THEN L
    ELSE IF ~isAtEnd(src, L) THEN TokenizeLoop(src, scanToken(src, L))
    ELSE PushToken(L, "EOF", <<>>)

(* A tokenize that pushes the end-of-file token twice. *)
tokenize_TwoEOF(src) == PushToken(TokenizeLoop(src, LexerInit), "EOF", <<>>)

tokenize(src) == TokenizeLoop(src, LexerInit)

(***************************************************************************)
(* Type values (src/types.ts) and assignability (src/checker.ts)           *)
(*                                                                         *)
(* A Type is a record with the fields of the code.  A Map is the sequence  *)
(* of its entries in insertion order, each entry a record with its key.    *)
(* The value of a literal type is its text together with its typeof.       *)
(***************************************************************************)
createNumberType == [kind |-> "number"]
createStringType == [kind |-> "string"]
createBooleanType == [kind |-> "boolean"]
createVoidType == [kind |-> "void"]
createNullType == [kind |-> "null"]
createUndefinedType == [kind |-> "undefined"]
createAnyType == [kind |-> "any"]
createUnknownType == [kind |-> "unknown"]
createNeverType == [kind |-> "never"]
createArrayType(elementType) == [kind |-> "array", elementType |-> elementType]
createUnionType(types) == [kind |-> "union", types |-> types]
createIntersectionType(types) == [kind |-> "intersection", types |-> types]
TupleType(elementTypes) == [kind |-> "tuple", elementTypes |-> elementTypes]
LiteralType(typeOf, value) == [kind |-> "literal", typeOf |-> typeOf, value |-> value]
FunctionType(params, returnType) ==
    [kind |-> "function", params |-> params, returnType |-> returnType]
InterfaceType(name, members) ==
    [kind |-> "interface", name |-> name, members |-> members]

MapHas(m, key) == \E i \in 1..Len(m) : m[i].key = key
MapGet(m, key) == m[CHOOSE i \in 1..Len(m) : m[i].key = key]
(* Map.set: the value of an existing key is replaced in place. *)
MapSet(m, entry) ==
    IF MapHas(m, entry.key)
    THEN [i \in 1..Len(m) |-> IF m[i].key = entry.key THEN entry ELSE m[i]]
    ELSE Append(m, entry)

RECURSIVE isAssignable(_, _)
RECURSIVE isInterfaceAssignable(_, _)
RECURSIVE isFunctionAssignable(_, _)

(* isFunctionAssignable with the parameter count test of checker.ts 1429    *)
(* turned from < into <=.                                                  *)
isFunctionAssignable_CountLeq(source, target) ==
    /\ isAssignable(source.returnType, target.returnType)
    /\ ~(Len(source.params) <= Len(target.params))
    /\ \A i \in 1..Len(target.params) :
           isAssignable(target.params[i].type, source.params[i].type)

(* An isInterfaceAssignable that skips the optional members of the target. *)
isInterfaceAssignable_SkipOptional(source, target) ==
    \A i \in 1..Len(target.members) :
        LET targetMember == target.members[i] IN
        IF targetMember.optional THEN TRUE
        ELSE IF ~MapHas(source.members, targetMember.key) THEN FALSE
        ELSE isAssignable(MapGet(source.members, targetMember.key).type,
                          targetMember.type)

isAssignable(source, target) ==
    IF source.kind = "any" \/ target.kind = "any" THEN TRUE
    ELSE IF target.kind = "unknown" THEN TRUE
    ELSE IF source.kind = "unknown"
    THEN target.kind = "unknown" \/ target.kind = "any"
    ELSE IF source.kind = "never" THEN TRUE
    ELSE IF source.kind = "null" \/ source.kind = "undefined"
    THEN \/ target.kind = source.kind
         \/ target.kind = "any"
         \/ target.kind = "unknown"
    ELSE IF source.kind = target.kind
    THEN IF source.kind = "interface" THEN isInterfaceAssignable(source, target)
         ELSE IF source.kind = "array"
         THEN isAssignable(source.elementType, target.elementType)
         ELSE IF source.kind = "tuple"
         THEN IF Len(source.elementTypes) # Len(target.elementTypes) THEN FALSE
              ELSE \A i \in 1..Len(source.elementTypes) :
                       isAssignable(source.elementTypes[i], target.elementTypes[i])
         ELSE IF source.kind = "function" THEN isFunctionAssignable(source, target)
         ELSE TRUE
    ELSE IF target.kind = "union"
    THEN \E i \in 1..Len(target.types) : isAssignable(source, target.types[i])
    ELSE IF source.kind = "union"
    THEN \A i \in 1..Len(source.types) : isAssignable(source.types[i], target)
    ELSE IF /\ source.kind = "string"
            /\ target.kind = "union"
            /\ \A i \in 1..Len(target.types) :
                   /\ target.types[i].kind = "literal"
                   /\ target.types[i].typeOf = "string"
    THEN TRUE
    ELSE IF source.kind = "literal"
            /\ \/ source.typeOf = "number" /\ target.kind = "number"
               \/ source.typeOf = "string" /\ target.kind = "string"
               \/ source.typeOf = "boolean" /\ target.kind = "boolean"
    THEN TRUE
    ELSE FALSE

isInterfaceAssignable(source, target) ==
    \A i \in 1..Len(target.members) :
        LET targetMember == target.members[i] IN
        IF ~MapHas(source.members, targetMember.key)
        THEN targetMember.optional
        ELSE isAssignable(MapGet(source.members, targetMember.key).type,
                          targetMember.type)

isFunctionAssignable(source, target) ==
    /\ isAssignable(source.returnType, target.returnType)
    /\ ~(Len(source.params) < Len(target.params))
    /\ \A i \in 1..Len(target.params) :
           isAssignable(target.params[i].type, source.params[i].type)

(***************************************************************************)
(* Parser (src/parser.ts)                                                  *)
(*                                                                         *)
(* A parse function is an operator of the token array and the cursor; its  *)
(* result [st, pos, node, msg] carries the cursor after it and the node it *)
(* returns.  st = "throw" is an Error thrown, st = "hang" a loop entered   *)
(* in a state in which it runs forever: an iteration that ends with the    *)
(* cursor where it began, nothing pushed and the loop condition as it was. *)
(* st = "unmodelled" marks a production of the grammar that this model     *)
(* does not cover (object, array and template literals, generics,          *)
(* imports, ...); a run that hits one is not continued.                    *)
(*                                                                         *)
(* A node is a record with the fields of the code.  An optional field that *)
(* the code leaves undefined holds Undefined, a null statement is Null.    *)
(* The text of a name, an operator or a literal is a sequence of           *)
(* characters; the value of a NumericLiteral is the text that String()     *)
(* gives for it, that of a BooleanLiteral the text true or false.          *)
(***************************************************************************)
Undefined == [kind |-> "undefined"]
Null == [kind |-> "null"]

POk(pos, node) == [st |-> "ok", pos |-> pos, node |-> node, msg |-> ""]
PThrow(pos, msg) == [st |-> "throw", pos |-> pos, node |-> Undefined, msg |-> msg]
PHang(pos) == [st |-> "hang", pos |-> pos, node |-> Undefined, msg |-> ""]
PUnmodelled(pos) == [st |-> "unmodelled", pos |-> pos, node |-> Undefined, msg |-> ""]

(* peek(), isAtEnd(), check(type) and expect(type, message) of the Parser. *)
parserPeek(toks, pos) == toks[pos + 1]
parserIsAtEnd(toks, pos) == parserPeek(toks, pos).type = "EOF"
check(toks, pos, type) ==
    ~parserIsAtEnd(toks, pos) /\ parserPeek(toks, pos).type = type
checkAny(toks, pos, types) == \E t \in types : check(toks, pos, t)
(* The cursor after match(type). *)
parserMatch(toks, pos, type) == IF check(toks, pos, type) THEN pos + 1 ELSE pos
expect(toks, pos, type, message) ==
    IF check(toks, pos, type)
    THEN POk(pos + 1, Undefined)
    ELSE PThrow(pos, message)

(* Token types that start a statement or an expression of a kind that is   *)
(* not modelled.                                                           *)
UnmodelledStatementTokens ==
    {"Async", "Do", "Continue", "Throw", "Try", "Import"}
UnmodelledPrimaryTokens ==
    {"LeftBrace", "LeftBracket", "Async", "Class",
     "TemplateLiteral", "TemplateHead"}

RECURSIVE Rule(_, _)

(* The statement loops of parse (96-101), parseBlockStatement (983-988)    *)
(* and the case bodies of parseSwitchStatement (882-889, 894-901):         *)
(*   while (<no token of stops ahead> [&& !isAtEnd()]) {                   *)
(*     const stmt = parseStatement(); if (stmt) statements.push(stmt); }   *)
(* parseStatement returns null, without consuming, exactly at EOF.         *)
StatementLoop(toks, pos, stops, stopAtEnd, statements) ==
    IF checkAny(toks, pos, stops) \/ (stopAtEnd /\ parserIsAtEnd(toks, pos))
    THEN POk(pos, statements)
    ELSE LET r == Rule("parseStatement", <<toks, pos>>) IN
         IF r.st # "ok" THEN r
         ELSE IF r.node = Null THEN PHang(pos)
         ELSE Rule("StatementLoop", <<toks, r.pos, stops, stopAtEnd,
                            Append(statements, r.node)>>)

parseProgram(toks) ==
    LET Program(r) ==
            IF r.st # "ok" THEN r
            ELSE POk(r.pos, [kind |-> "Program", statements |-> r.node])
    IN  Program(Rule("StatementLoop", <<toks, 0, {}, TRUE, <<>>>>))

parseVariableDeclaration(toks, pos) ==
    LET startToken == parserPeek(toks, pos)
        n == expect(toks, pos + 1, "Identifier", "Expected variable name")
        name == parserPeek(toks, pos + 1).value
        t == IF check(toks, n.pos, "Colon")
             THEN Rule("parseType", <<toks, n.pos + 1>>)
             ELSE POk(n.pos, Undefined)
        i == IF check(toks, t.pos, "Equals")
             THEN Rule("parseExpression", <<toks, t.pos + 1>>)
             ELSE POk(t.pos, Undefined)
        e == expect(toks, i.pos, "Semicolon", "Expected ';' after variable declaration")
    IN  IF n.st # "ok" THEN n
        ELSE IF t.st # "ok" THEN t
        ELSE IF i.st # "ok" THEN i
        ELSE IF e.st # "ok" THEN e
        ELSE POk(e.pos, [kind |-> "VariableDeclaration",
                         name |-> name,
                         varKind |-> startToken.value,
                         typeAnnotation |-> t.node,
                         initializer |-> i.node,
                         line |-> startToken.line])

parseReturnStatement(toks, pos) ==
    LET startToken == parserPeek(toks, pos)
        a == IF ~check(toks, pos + 1, "Semicolon") /\ ~check(toks, pos + 1, "RightBrace")
             THEN Rule("parseExpression", <<toks, pos + 1>>)
             ELSE POk(pos + 1, Undefined)
        e == expect(toks, a.pos, "Semicolon", "Expected ';' after return statement")
    IN  IF a.st # "ok" THEN a
        ELSE IF e.st # "ok" THEN e
        ELSE POk(e.pos, [kind |-> "ReturnStatement", argument |-> a.node,
                         line |-> startToken.line])

(* `( condition )` after the keyword at pos, as in parseIfStatement,       *)
(* parseWhileStatement and parseSwitchStatement.                           *)
ParenCondition(toks, pos) ==
    LET l == expect(toks, pos + 1, "LeftParen", "Expected '('")
        c == Rule("parseExpression", <<toks, l.pos>>)
        r == expect(toks, c.pos, "RightParen", "Expected ')'")
    IN  IF l.st # "ok" THEN l
        ELSE IF c.st # "ok" THEN c
        ELSE IF r.st # "ok" THEN r
        ELSE POk(r.pos, c.node)

parseIfStatement(toks, pos) ==
    LET startToken == parserPeek(toks, pos)
        c == ParenCondition(toks, pos)
        s == Rule("parseStatement", <<toks, c.pos>>)
        a == IF check(toks, s.pos, "Else")
             THEN Rule("parseStatement", <<toks, s.pos + 1>>)
             ELSE POk(s.pos, Undefined)
    IN  IF c.st # "ok" THEN c
        ELSE IF s.st # "ok" THEN s
        ELSE IF s.node = Null THEN PThrow(s.pos, "Expected statement after 'if'")
        ELSE IF a.st # "ok" THEN a
        ELSE POk(a.pos, [kind |-> "IfStatement", condition |-> c.node,
                         consequent |-> s.node,
                         alternate |-> IF a.node = Null THEN Undefined ELSE a.node,
                         line |-> startToken.line])

parseWhileStatement(toks, pos) ==
    LET startToken == parserPeek(toks, pos)
        c == ParenCondition(toks, pos)
        b == Rule("parseStatement", <<toks, c.pos>>)
    IN  IF c.st # "ok" THEN c
        ELSE IF b.st # "ok" THEN b
        ELSE IF b.node = Null THEN PThrow(b.pos, "Expected statement after 'while'")
        ELSE POk(b.pos, [kind |-> "WhileStatement", condition |-> c.node,
                         body |-> b.node, line |-> startToken.line])

(* The three semicolon-separated parts and the body of a plain for loop,   *)
(* from the cursor after the init (parser.ts 795-847).                     *)
ForRest(toks, pos, init, line) ==
    LET s1 == expect(toks, pos, "Semicolon", "Expected ';'")
        c  == IF ~check(toks, s1.pos, "Semicolon")
              THEN Rule("parseExpression", <<toks, s1.pos>>)
              ELSE POk(s1.pos, Undefined)
        s2 == expect(toks, c.pos, "Semicolon", "Expected ';'")
        u  == IF ~check(toks, s2.pos, "RightParen")
              THEN Rule("parseExpression", <<toks, s2.pos>>)
              ELSE POk(s2.pos, Undefined)
        rp == expect(toks, u.pos, "RightParen", "Expected ')'")
        b  == Rule("parseStatement", <<toks, rp.pos>>)
    IN  IF s1.st # "ok" THEN s1
        ELSE IF c.st # "ok" THEN c
        ELSE IF s2.st # "ok" THEN s2
        ELSE IF u.st # "ok" THEN u
        ELSE IF rp.st # "ok" THEN rp
        ELSE IF b.st # "ok" THEN b
        ELSE POk(b.pos, [kind |-> "ForStatement", init |-> init,
                         condition |-> c.node, update |-> u.node,
                         body |-> b.node, line |-> line])

(* `<expression> ) <statement>` of a for-of or for-in loop, as             *)
(* <<result of the last step, expression, body>>.                          *)
ForEachRest(toks, pos) ==
    LET e  == Rule("parseExpression", <<toks, pos>>)
        rp == expect(toks, e.pos, "RightParen", "Expected ')'")
        b  == Rule("parseStatement", <<toks, rp.pos>>)
    IN  IF e.st # "ok" THEN <<e, Undefined, Undefined>>
        ELSE IF rp.st # "ok" THEN <<rp, Undefined, Undefined>>
        ELSE <<b, e.node, b.node>>

parseForStatement(toks, pos) ==
    LET startToken == parserPeek(toks, pos)
        p1 == pos + 1
        isAwait == check(toks, p1, "Await")
        lp == expect(toks, parserMatch(toks, p1, "Await"), "LeftParen",
                     "Expected '(' after 'for'")
        varKind == parserPeek(toks, lp.pos)
        n == expect(toks, lp.pos + 1, "Identifier", "Expected variable name")
        name == parserPeek(toks, lp.pos + 1).value
        variable == [kind |-> "VariableDeclaration", name |-> name,
                     varKind |-> varKind.value, typeAnnotation |-> Undefined,
                     initializer |-> Undefined, line |-> varKind.line]
        each == ForEachRest(toks, n.pos + 1)
        t == IF check(toks, n.pos, "Colon")
             THEN Rule("parseType", <<toks, n.pos + 1>>)
             ELSE POk(n.pos, Undefined)
        i == IF check(toks, t.pos, "Equals")
             THEN Rule("parseExpression", <<toks, t.pos + 1>>)
             ELSE POk(t.pos, Undefined)
        x == IF ~check(toks, lp.pos, "Semicolon")
             THEN Rule("parseExpression", <<toks, lp.pos>>)
             ELSE POk(lp.pos, Undefined)
    IN  IF lp.st # "ok" THEN lp
        ELSE IF checkAny(toks, lp.pos, {"Let", "Const", "Var"})
        THEN IF n.st # "ok" THEN n
             ELSE IF check(toks, n.pos, "Of")
             THEN IF each[1].st # "ok" THEN each[1]
                  ELSE POk(each[1].pos,
                           [kind |-> "ForOfStatement", variable |-> variable,
                            iterable |-> each[2], body |-> each[3],
                            isAwait |-> isAwait, line |-> startToken.line])
             ELSE IF check(toks, n.pos, "In")
             THEN IF each[1].st # "ok" THEN each[1]
                  ELSE POk(each[1].pos,
                           [kind |-> "ForInStatement", variable |-> variable,
                            object |-> each[2], body |-> each[3],
                            line |-> startToken.line])
             ELSE IF t.st # "ok" THEN t
             ELSE IF i.st # "ok" THEN i
             ELSE ForRest(toks, i.pos,
                          [variable EXCEPT !.typeAnnotation = t.node,
                                           !.initializer = i.node],
                          startToken.line)
        ELSE IF x.st # "ok" THEN x
        ELSE ForRest(toks, x.pos, x.node, startToken.line)

(* The loop over the cases of parseSwitchStatement (877-904).  A token     *)
(* that is none of case, default and `}` is not consumed by the loop body. *)
SwitchCases(toks, pos, cases) ==
    IF check(toks, pos, "RightBrace") \/ parserIsAtEnd(toks, pos)
    THEN POk(pos, cases)
    ELSE IF check(toks, pos, "Case")
    THEN LET test == Rule("parseExpression", <<toks, pos + 1>>)
             c == expect(toks, test.pos, "Colon", "Expected ':'")
             body == Rule("StatementLoop", <<toks, c.pos, {"Case", "Default", "RightBrace"},
                                   FALSE, <<>>>>)
         IN  IF test.st # "ok" THEN test
             ELSE IF c.st # "ok" THEN c
             ELSE IF body.st # "ok" THEN body
             ELSE Rule("SwitchCases", <<toks, body.pos,
                      Append(cases, [test |-> test.node, consequent |-> body.node])>>)
    ELSE IF check(toks, pos, "Default")
    THEN LET c == expect(toks, pos + 1, "Colon", "Expected ':'")
             body == Rule("StatementLoop", <<toks, c.pos, {"Case", "Default", "RightBrace"},
                                   FALSE, <<>>>>)
         IN  IF c.st # "ok" THEN c
             ELSE IF body.st # "ok" THEN body
             ELSE Rule("SwitchCases", <<toks, body.pos,
                      Append(cases, [test |-> Undefined, consequent |-> body.node])>>)
    ELSE PHang(pos)

parseSwitchStatement(toks, pos) ==
    LET startToken == parserPeek(toks, pos)
        d  == ParenCondition(toks, pos)
        lb == expect(toks, d.pos, "LeftBrace", "Expected '{'")
        cs == Rule("SwitchCases", <<toks, lb.pos, <<>>>>)
        rb == expect(toks, cs.pos, "RightBrace", "Expected '}'")
    IN  IF d.st # "ok" THEN d
        ELSE IF lb.st # "ok" THEN lb
        ELSE IF cs.st # "ok" THEN cs
        ELSE IF rb.st # "ok" THEN rb
        ELSE POk(rb.pos, [kind |-> "SwitchStatement", discriminant |-> d.node,
                          cases |-> cs.node, line |-> startToken.line])

(* An absent label is the empty text. *)
parseBreakStatement(toks, pos) ==
    LET startToken == parserPeek(toks, pos)
        hasLabel == check(toks, pos + 1, "Identifier")
        p == IF hasLabel THEN pos + 2 ELSE pos + 1
        e == expect(toks, p, "Semicolon", "Expected ';'")
    IN  IF e.st # "ok" THEN e
        ELSE POk(e.pos, [kind |-> "BreakStatement",
                         label |-> IF hasLabel THEN parserPeek(toks, pos + 1).value
                                   ELSE <<>>,
                         line |-> startToken.line])

parseBlockStatement(toks, pos) ==
    LET startToken == parserPeek(toks, pos)
        lb == expect(toks, pos, "LeftBrace", "Expected '{'")
        ss == Rule("StatementLoop", <<toks, lb.pos, {"RightBrace"}, TRUE, <<>>>>)
        rb == expect(toks, ss.pos, "RightBrace", "Expected '}'")
    IN  IF lb.st # "ok" THEN lb
        ELSE IF ss.st # "ok" THEN ss
        ELSE IF rb.st # "ok" THEN rb
        ELSE POk(rb.pos, [kind |-> "BlockStatement", statements |-> ss.node,
                          line |-> startToken.line])

parseExpressionStatement(toks, pos) ==
    LET x == Rule("parseExpression", <<toks, pos>>)
        e == expect(toks, x.pos, "Semicolon", "Expected ';' after expression")
    IN  IF x.st # "ok" THEN x
        ELSE IF e.st # "ok" THEN e
        ELSE POk(e.pos, [kind |-> "ExpressionStatement", expression |-> x.node,
                         line |-> x.node.line])

parseStatement(toks, pos) ==
    LET token == parserPeek(toks, pos) IN
    CASE token.type \in UnmodelledStatementTokens -> PUnmodelled(pos)
      [] token.type \in {"Let", "Const", "Var"} -> parseVariableDeclaration(toks, pos)
      [] token.type = "Function" -> Rule("parseFunctionDeclaration", <<toks, pos>>)
      [] token.type = "Interface" -> Rule("parseInterfaceDeclaration", <<toks, pos>>)
      [] token.type = "Type" -> Rule("parseTypeAliasDeclaration", <<toks, pos>>)
      [] token.type = "At" -> Rule("DecoratedStatement", <<toks, pos>>)
      [] token.type = "Class" -> Rule("parseClassDeclaration", <<toks, pos, <<>>>>)
      [] token.type = "Abstract" /\ toks[pos + 2].type = "Class" ->
           Rule("parseClassDeclaration", <<toks, pos, <<>>>>)
      [] token.type = "Enum" -> Rule("parseEnumDeclaration", <<toks, pos>>)
      [] token.type = "Export" -> Rule("parseExportDeclaration", <<toks, pos>>)
      [] token.type = "Return" -> parseReturnStatement(toks, pos)
      [] token.type = "If" -> parseIfStatement(toks, pos)
      [] token.type = "While" -> parseWhileStatement(toks, pos)
      [] token.type = "For" -> Rule("parseForStatement", <<toks, pos>>)
      [] token.type = "Switch" -> Rule("parseSwitchStatement", <<toks, pos>>)
      [] token.type = "Break" -> parseBreakStatement(toks, pos)
      [] token.type = "LeftBrace" -> Rule("parseBlockStatement", <<toks, pos>>)
      [] token.type = "Semicolon" ->
           POk(pos + 1, [kind |-> "EmptyStatement", line |-> token.line])
      [] token.type = "EOF" -> POk(pos, Null)
      [] OTHER -> parseExpressionStatement(toks, pos)
(* parseFloat(text) printed by String(): the decimal digits of text with   *)
(* the point moved by its exponent, without leading zeros of the integer   *)
(* part and trailing zeros of the fraction.  parseFloat reads a radix      *)
(* prefix (0x, 0b, 0o) as the number 0 and ignores a bigint suffix.        *)
(* (Values printed by String() in exponent form, at or above 1e21 or below *)
(* 1e-6, and digits beyond double precision are outside the modelled       *)
(* inputs.)                                                                *)
RECURSIVE DigitsValue(_)
DigitsValue(s) ==
    IF s = <<>> THEN 0
    ELSE 10 * DigitsValue(SubSeq(s, 1, Len(s) - 1))
         + ((CHOOSE i \in 1..10 : DigitChars[i] = s[Len(s)]) - 1)

Zeros(n) == [i \in 1..n |-> "0"]

NumberText(text) ==
    LET Digits == Range(DigitChars)
        (* the text of the number whose digits are rawInt before the point *)
        (* and rawFrac after it                                            *)
        Canonical(rawInt, rawFrac) ==
            LET lead == SpanEnd(rawInt, 0, {"0"})
                int == IF lead = Len(rawInt) THEN <<"0">>
                       ELSE SubSeq(rawInt, lead + 1, Len(rawInt))
                lastNonZero ==
                    IF \E k \in 1..Len(rawFrac) : rawFrac[k] # "0"
                    THEN CHOOSE k \in 1..Len(rawFrac) :
                             /\ rawFrac[k] # "0"
                             /\ \A j \in (k + 1)..Len(rawFrac) : rawFrac[j] = "0"
                    ELSE 0
                frac == SubSeq(rawFrac, 1, lastNonZero)
            IN  IF frac = <<>> THEN int ELSE int \o <<".">> \o frac
        Split(padded, cut) ==
            Canonical(SubSeq(padded, 1, cut), SubSeq(padded, cut + 1, Len(padded)))
        (* the digits all with the point after the first point of them *)
        Placed(all, point) ==
            Split(IF point < 0 THEN Zeros(0 - point) \o all
                  ELSE IF point > Len(all) THEN all \o Zeros(point - Len(all))
                  ELSE all,
                  IF point < 0 THEN 0 ELSE point)
        (* the value of the exponent that starts at e2, 0 if there is none *)
        Exponent(e2) ==
            LET hasExp == /\ toLowerCase(CharAt(text, e2)) = "e"
                          /\ \/ isDigit(CharAt(text, e2 + 1))
                             \/ /\ CharAt(text, e2 + 1) \in {"+", "-"}
                                /\ isDigit(CharAt(text, e2 + 2))
                expStart == IF CharAt(text, e2 + 1) \in {"+", "-"} THEN e2 + 2
                            ELSE e2 + 1
                expAbs == DigitsValue(Slice(text, expStart,
                                            SpanEnd(text, expStart, Digits)))
            IN  IF ~hasExp THEN 0
                ELSE IF CharAt(text, e2 + 1) = "-" THEN 0 - expAbs
                ELSE expAbs
        (* integer digits up to e1, fraction digits up to e2 *)
        Parts(e1, e2) ==
            Placed(Slice(text, 0, e1)
                       \o (IF CharAt(text, e1) = "." THEN Slice(text, e1 + 1, e2)
                           ELSE <<>>),
                   e1 + Exponent(e2))
        FromInt(e1) ==
            Parts(e1, IF CharAt(text, e1) = "." THEN SpanEnd(text, e1 + 1, Digits)
                      ELSE e1)
    IN  FromInt(SpanEnd(text, 0, Digits))

(* parsePrimaryType, for literal types, the primitive type keywords and    *)
(* type names without type arguments.                                      *)
parsePrimaryType(toks, pos) ==
    LET token == parserPeek(toks, pos)
        Literal(typeOf, value) ==
            POk(pos + 1, [kind |-> "LiteralType", typeOf |-> typeOf, value |-> value,
                          line |-> token.line])
    IN  IF checkAny(toks, pos, {"LeftParen", "LeftBracket", "LeftBrace", "Typeof",
                                "Keyof", "Infer"})
        THEN PUnmodelled(pos)
        ELSE IF check(toks, pos, "StringLiteral") THEN Literal("string", token.value)
        ELSE IF check(toks, pos, "NumberLiteral")
        THEN Literal("number", NumberText(token.value))
        ELSE IF check(toks, pos, "True") THEN Literal("boolean", <<"t", "r", "u", "e">>)
        ELSE IF check(toks, pos, "False") THEN Literal("boolean", <<"f", "a", "l", "s", "e">>)
        ELSE IF check(toks, pos, "Null") THEN Literal("object", <<"n", "u", "l", "l">>)
        ELSE IF checkAny(toks, pos, {"NumberType", "StringType", "BooleanType", "Void",
                                     "Undefined", "Any", "Unknown", "Never", "Object",
                                     "Symbol", "Bigint", "Identifier"})
        THEN IF checkAny(toks, pos + 1, {"LessThan", "Extends"})
             THEN PUnmodelled(pos + 1)
             ELSE POk(pos + 1, [kind |-> "TypeReference", typeName |-> token.value,
                                line |-> token.line])
        ELSE PThrow(pos, "Expected type")

(* The loop of parseArrayType after the type read so far. *)
ArrayTypeRest(toks, pos, type) ==
    IF check(toks, pos, "LeftBracket")
    THEN IF check(toks, pos + 1, "RightBracket")
         THEN Rule("ArrayTypeRest", <<toks, pos + 2,
                  [kind |-> "ArrayType", elementType |-> type, line |-> type.line]>>)
         ELSE PUnmodelled(pos + 1)
    ELSE POk(pos, type)

parseArrayType(toks, pos) ==
    LET p == parsePrimaryType(toks, pos) IN
    IF p.st # "ok" THEN p ELSE Rule("ArrayTypeRest", <<toks, p.pos, p.node>>)

(* The loops of parseUnionType and parseIntersectionType: kind is          *)
(* "UnionType" with separator Pipe or "IntersectionType" with Ampersand.   *)
TypeListRest(toks, pos, left, kind, sep) ==
    IF check(toks, pos, sep)
    THEN LET right == IF kind = "UnionType"
                      THEN Rule("parseIntersectionType", <<toks, pos + 1>>)
                      ELSE Rule("parseArrayType", <<toks, pos + 1>>)
         IN  IF right.st # "ok" THEN right
             ELSE Rule("TypeListRest", <<toks, right.pos,
                      [kind |-> kind,
                       types |-> IF left.kind = kind
                                 THEN Append(left.types, right.node)
                                 ELSE <<left, right.node>>,
                       line |-> left.line],
                      kind, sep>>)
    ELSE POk(pos, left)

parseIntersectionType(toks, pos) ==
    LET l == Rule("parseArrayType", <<toks, parserMatch(toks, pos, "Ampersand")>>) IN
    IF l.st # "ok" THEN l
    ELSE Rule("TypeListRest", <<toks, l.pos, l.node, "IntersectionType", "Ampersand">>)

parseUnionType(toks, pos) ==
    LET l == Rule("parseIntersectionType", <<toks, parserMatch(toks, pos, "Pipe")>>) IN
    IF l.st # "ok" THEN l
    ELSE Rule("TypeListRest", <<toks, l.pos, l.node, "UnionType", "Pipe">>)

parseType(toks, pos) == parseUnionType(toks, pos)

parseExpression(toks, pos) == Rule("parseAssignment", <<toks, pos>>)

parseAssignment(toks, pos) ==
    LET left == Rule("parseConditional", <<toks, pos>>)
        right == Rule("parseAssignment", <<toks, left.pos + 1>>)
    IN  IF left.st # "ok" THEN left
        ELSE IF checkAny(toks, left.pos, {"Equals", "PlusEquals", "MinusEquals",
                                          "StarEquals", "SlashEquals", "PercentEquals"})
        THEN IF right.st # "ok" THEN right
             ELSE POk(right.pos, [kind |-> "AssignmentExpression",
                                  operator |-> parserPeek(toks, left.pos).value,
                                  left |-> left.node, right |-> right.node,
                                  line |-> left.node.line])
        ELSE left

parseConditional(toks, pos) ==
    LET condition == Rule("parseBinary", <<toks, pos, 1>>)
        consequent == Rule("parseAssignment", <<toks, condition.pos + 1>>)
        colon == expect(toks, consequent.pos, "Colon", "Expected ':'")
        alternate == Rule("parseAssignment", <<toks, colon.pos>>)
    IN  IF condition.st # "ok" THEN condition
        ELSE IF check(toks, condition.pos, "Question")
        THEN IF consequent.st # "ok" THEN consequent
             ELSE IF colon.st # "ok" THEN colon
             ELSE IF alternate.st # "ok" THEN alternate
             ELSE POk(alternate.pos, [kind |-> "ConditionalExpression",
                                      condition |-> condition.node,
                                      consequent |-> consequent.node,
                                      alternate |-> alternate.node,
                                      line |-> condition.node.line])
        ELSE condition

(* The left-associative binary levels, parseLogicalOr (1) down to          *)
(* parseMultiplicative (10): the token types each level loops on.          *)
BinaryLevels ==
    << {"PipePipe", "QuestionQuestion"},
       {"AmpersandAmpersand"},
       {"Pipe"},
       {"Caret"},
       {"Ampersand"},
       {"EqualsEquals", "EqualsEqualsEquals", "BangEquals", "BangEqualsEquals"},
       {"LessThan", "GreaterThan", "LessThanEquals", "GreaterThanEquals",
        "Instanceof", "In"},
       {"LessThanLessThan", "GreaterThanGreaterThan",
        "GreaterThanGreaterThanGreaterThan"},
       {"Plus", "Minus"},
       {"Star", "Slash", "Percent"} >>

(* The while loop of a binary level with the left operand read so far; the *)
(* right operand is read by the level below, parseExponentiation below     *)
(* parseMultiplicative.                                                    *)
BinaryRest(toks, pos, left, level) ==
    IF checkAny(toks, pos, BinaryLevels[level])
    THEN LET right == Rule("parseBinary", <<toks, pos + 1, level + 1>>) IN
         IF right.st # "ok" THEN right
         ELSE Rule("BinaryRest", <<toks, right.pos,
                  [kind |-> IF level <= 2 THEN "LogicalExpression"
                            ELSE "BinaryExpression",
                   operator |-> parserPeek(toks, pos).value,
                   left |-> left, right |-> right.node, line |-> left.line],
                  level>>)
    ELSE POk(pos, left)

(* The returns of the levels `from` up to `level`: r is what the level     *)
(* below `from` returned, the left operand of level `from`; an exception   *)
(* passes through every level.                                             *)
BinaryUp(toks, r, from, level) ==
    IF r.st # "ok" \/ from < level THEN r
    ELSE Rule("BinaryUp", <<toks, Rule("BinaryRest", <<toks, r.pos, r.node, from>>),
                            from - 1, level>>)

(* Level `level` of parseLogicalOr .. parseMultiplicative: each level      *)
(* first calls the level below, so the first thing read is the operand of  *)
(* parseExponentiation, and then the loops run from the lowest level up.   *)
parseBinary(toks, pos, level) ==
    BinaryUp(toks, Rule("parseExponentiation", <<toks, pos>>), Len(BinaryLevels), level)

parseExponentiation(toks, pos) ==
    LET left == Rule("parseUnary", <<toks, pos>>)
        right == Rule("parseExponentiation", <<toks, left.pos + 1>>)
    IN  IF left.st # "ok" THEN left
        ELSE IF check(toks, left.pos, "StarStar")
        THEN IF right.st # "ok" THEN right
             ELSE POk(right.pos, [kind |-> "BinaryExpression", operator |-> <<"*", "*">>,
                                  left |-> left.node, right |-> right.node,
                                  line |-> left.node.line])
        ELSE left

parseUnary(toks, pos) ==
    LET operand == Rule("parseUnary", <<toks, pos + 1>>) IN
    IF checkAny(toks, pos, {"Bang", "Minus", "Plus", "Tilde", "Typeof", "Delete"})
    THEN IF operand.st # "ok" THEN operand
         ELSE POk(operand.pos, [kind |-> "UnaryExpression",
                                operator |-> parserPeek(toks, pos).value,
                                operand |-> operand.node, prefix |-> TRUE,
                                line |-> operand.node.line])
    ELSE IF checkAny(toks, pos, {"PlusPlus", "MinusMinus"})
    THEN IF operand.st # "ok" THEN operand
         ELSE POk(operand.pos, [kind |-> "UpdateExpression",
                                operator |-> parserPeek(toks, pos).value,
                                argument |-> operand.node, prefix |-> TRUE,
                                line |-> operand.node.line])
    ELSE IF check(toks, pos, "Await") THEN PUnmodelled(pos)
    ELSE Rule("parsePostfix", <<toks, pos>>)

(* parseLeftHandSide: a `new` expression is not modelled. *)
parseLeftHandSide(toks, pos) ==
    LET p == Rule("parsePrimary", <<toks, pos>>) IN
    IF check(toks, pos, "New") THEN PUnmodelled(pos)
    ELSE IF p.st # "ok" THEN p
    ELSE Rule("parseCallMemberExpression", <<toks, p.pos, p.node>>)

parsePostfix(toks, pos) ==
    LET x == parseLeftHandSide(toks, pos)
        t == Rule("parseType", <<toks, x.pos + 1>>)
    IN  IF x.st # "ok" THEN x
        ELSE IF checkAny(toks, x.pos, {"PlusPlus", "MinusMinus"})
        THEN POk(x.pos + 1, [kind |-> "UpdateExpression",
                             operator |-> parserPeek(toks, x.pos).value,
                             argument |-> x.node, prefix |-> FALSE,
                             line |-> x.node.line])
        ELSE IF check(toks, x.pos, "Bang")
        THEN POk(x.pos + 1, [kind |-> "NonNullExpression", expression |-> x.node,
                             line |-> x.node.line])
        ELSE IF check(toks, x.pos, "As")
        THEN IF t.st # "ok" THEN t
             ELSE POk(t.pos, [kind |-> "AsExpression", expression |-> x.node,
                              typeAnnotation |-> t.node, line |-> x.node.line])
        ELSE x

(* The do-while loop over the arguments of a call (2063-2075), from the    *)
(* head of an iteration.                                                   *)
Arguments(toks, pos, args) ==
    LET a == Rule("parseAssignment", <<toks, pos>>) IN
    IF check(toks, pos, "Spread") THEN PUnmodelled(pos)
    ELSE IF a.st # "ok" THEN a
    ELSE IF check(toks, a.pos, "Comma")
    THEN Rule("Arguments", <<toks, a.pos + 1, Append(args, a.node)>>)
    ELSE POk(a.pos, Append(args, a.node))

(* A restore that rewinds the cursor by one token only. *)
RestoredPosition_OneBack(savedPos, attempt) ==
    IF attempt.pos > savedPos THEN attempt.pos - 1 ELSE savedPos

(* `this.pos = savedPos` after a speculative attempt that failed           *)
(* (2174, 2178, 2318, 2320): the cursor is the one saved before it.        *)
RestoredPosition(savedPos, attempt) == savedPos

(* The do-while loop of parseTypeArguments (1656-1658), from the head of   *)
(* an iteration.                                                           *)
TypeArguments(toks, pos, args) ==
    LET t == Rule("parseType", <<toks, pos>>) IN
    IF t.st # "ok" THEN t
    ELSE IF check(toks, t.pos, "Comma")
    THEN Rule("TypeArguments", <<toks, t.pos + 1, Append(args, t.node)>>)
    ELSE POk(t.pos, Append(args, t.node))

(* The try block of the type-argument attempt of parseCallMemberExpression *)
(* (2153-2175).  A result "ok" with node Undefined stands for the branch   *)
(* in which no `(` follows the type arguments; its cursor is the one the   *)
(* attempt reached.                                                        *)
TryTypeArguments(toks, pos, expr) ==
    LET ta == Rule("TypeArguments", <<toks, pos + 1, <<>>>>)
        gt == expect(toks, ta.pos, "GreaterThan", "Expected '>'")
        args == IF ~check(toks, gt.pos + 1, "RightParen")
                THEN Rule("Arguments", <<toks, gt.pos + 1, <<>>>>)
                ELSE POk(gt.pos + 1, <<>>)
        rp == expect(toks, args.pos, "RightParen", "Expected ')'")
    IN  IF ta.st # "ok" THEN ta
        ELSE IF gt.st # "ok" THEN gt
        ELSE IF ~check(toks, gt.pos, "LeftParen") THEN POk(gt.pos, Undefined)
        ELSE IF args.st # "ok" THEN args
        ELSE IF rp.st # "ok" THEN rp
        ELSE POk(rp.pos, [kind |-> "CallExpression", callee |-> expr,
                          arguments |-> args.node, typeArguments |-> ta.node,
                          line |-> expr.line])

parseCallMemberExpression(toks, pos, expr) ==
    IF check(toks, pos, "LeftParen")
    THEN LET args == IF ~check(toks, pos + 1, "RightParen")
                     THEN Rule("Arguments", <<toks, pos + 1, <<>>>>)
                     ELSE POk(pos + 1, <<>>)
             rp == expect(toks, args.pos, "RightParen", "Expected ')'")
         IN  IF args.st # "ok" THEN args
             ELSE IF rp.st # "ok" THEN rp
             ELSE Rule("parseCallMemberExpression", <<toks, rp.pos,
                      [kind |-> "CallExpression", callee |-> expr,
                       arguments |-> args.node, line |-> expr.line]>>)
    ELSE IF check(toks, pos, "Dot")
    THEN LET p == expect(toks, pos + 1, "Identifier", "Expected property name") IN
         IF p.st # "ok" THEN p
         ELSE Rule("parseCallMemberExpression", <<toks, p.pos,
                  [kind |-> "MemberExpression", object |-> expr,
                   property |-> parserPeek(toks, pos + 1).value, line |-> expr.line]>>)
    ELSE IF checkAny(toks, pos, {"QuestionDot", "LeftBracket"})
    THEN PUnmodelled(pos)
    ELSE IF check(toks, pos, "LessThan")
    THEN LET attempt == Rule("TryTypeArguments", <<toks, pos, expr>>) IN
         IF attempt.st \in {"hang", "unmodelled"} THEN attempt
         ELSE IF attempt.st = "ok" /\ attempt.node # Undefined
         THEN Rule("parseCallMemberExpression", <<toks, attempt.pos, attempt.node>>)
         ELSE POk(RestoredPosition(pos, attempt), expr)
    ELSE POk(pos, expr)

(* parseFunctionDeclaration for `function name(parameters): type { }`.     *)
(* `async`, generators and type parameters are not modelled.               *)
parseFunctionDeclaration(toks, pos) ==
    LET startToken == parserPeek(toks, pos)
        n == expect(toks, pos + 1, "Identifier", "Expected function name")
        lp == expect(toks, n.pos, "LeftParen", "Expected '(' after function name")
        ps == Rule("parseParameterList", <<toks, lp.pos>>)
        rp == expect(toks, ps.pos, "RightParen", "Expected ')' after parameters")
        rt == IF check(toks, rp.pos, "Colon") THEN Rule("parseType", <<toks, rp.pos + 1>>)
              ELSE POk(rp.pos, Undefined)
        body == Rule("parseBlockStatement", <<toks, rt.pos>>)
    IN  IF check(toks, pos + 1, "Star") THEN PUnmodelled(pos + 1)
        ELSE IF n.st # "ok" THEN n
        ELSE IF check(toks, n.pos, "LessThan") THEN PUnmodelled(n.pos)
        ELSE IF lp.st # "ok" THEN lp
        ELSE IF ps.st # "ok" THEN ps
        ELSE IF rp.st # "ok" THEN rp
        ELSE IF rt.st # "ok" THEN rt
        ELSE IF body.st # "ok" THEN body
        ELSE POk(body.pos, [kind |-> "FunctionDeclaration",
                            name |-> parserPeek(toks, pos + 1).value,
                            parameters |-> ps.node, returnType |-> rt.node,
                            body |-> body.node, isAsync |-> FALSE,
                            isGenerator |-> FALSE, typeParameters |-> Undefined,
                            line |-> startToken.line])

(* The while loop over the members of parseInterfaceDeclaration (329-346), *)
(* from the head of an iteration.                                          *)
InterfaceMembers(toks, pos, members) ==
    IF check(toks, pos, "RightBrace") \/ parserIsAtEnd(toks, pos) THEN POk(pos, members)
    ELSE LET readonly == check(toks, pos, "Readonly")
             p0 == parserMatch(toks, pos, "Readonly")
             n == expect(toks, p0, "Identifier", "Expected member name")
             optional == check(toks, n.pos, "Question")
             c == expect(toks, parserMatch(toks, n.pos, "Question"), "Colon",
                         "Expected ':' after member name")
             t == Rule("parseType", <<toks, c.pos>>)
             p1 == IF check(toks, t.pos, "Semicolon") THEN t.pos + 1
                   ELSE parserMatch(toks, t.pos, "Comma")
         IN  IF n.st # "ok" THEN n
             ELSE IF c.st # "ok" THEN c
             ELSE IF t.st # "ok" THEN t
             ELSE Rule("InterfaceMembers",
                       <<toks, p1,
                         Append(members, [name |-> parserPeek(toks, p0).value,
                                          typeAnnotation |-> t.node,
                                          optional |-> optional,
                                          readonly |-> readonly])>>)

(* parseInterfaceDeclaration.  Type parameters and an extends clause are   *)
(* not modelled.                                                           *)
parseInterfaceDeclaration(toks, pos) ==
    LET startToken == parserPeek(toks, pos)
        n == expect(toks, pos + 1, "Identifier", "Expected interface name")
        lb == expect(toks, n.pos, "LeftBrace", "Expected '{' after interface name")
        ms == Rule("InterfaceMembers", <<toks, lb.pos, <<>>>>)
        rb == expect(toks, ms.pos, "RightBrace", "Expected '}' after interface members")
    IN  IF n.st # "ok" THEN n
        ELSE IF checkAny(toks, n.pos, {"LessThan", "Extends"}) THEN PUnmodelled(n.pos)
        ELSE IF lb.st # "ok" THEN lb
        ELSE IF ms.st # "ok" THEN ms
        ELSE IF rb.st # "ok" THEN rb
        ELSE POk(rb.pos, [kind |-> "InterfaceDeclaration",
                          name |-> parserPeek(toks, pos + 1).value,
                          members |-> ms.node, extends |-> Undefined,
                          typeParameters |-> Undefined, line |-> startToken.line])

(* parseTypeAliasDeclaration.  Type parameters are not modelled. *)
parseTypeAliasDeclaration(toks, pos) ==
    LET startToken == parserPeek(toks, pos)
        n == expect(toks, pos + 1, "Identifier", "Expected type name")
        e == expect(toks, n.pos, "Equals", "Expected '=' after type name")
        t == Rule("parseType", <<toks, e.pos>>)
        s == expect(toks, t.pos, "Semicolon", "Expected ';' after type alias")
    IN  IF n.st # "ok" THEN n
        ELSE IF check(toks, n.pos, "LessThan") THEN PUnmodelled(n.pos)
        ELSE IF e.st # "ok" THEN e
        ELSE IF t.st # "ok" THEN t
        ELSE IF s.st # "ok" THEN s
        ELSE POk(s.pos, [kind |-> "TypeAliasDeclaration",
                         name |-> parserPeek(toks, pos + 1).value,
                         typeParameters |-> Undefined, type |-> t.node,
                         line |-> startToken.line])

(* parseFunctionExpression for `function name(parameters): type { }` with  *)
(* or without the name; the name of a function expression without one is  *)
(* the empty text, which `if (expr.name)` of the checker treats as it      *)
(* treats undefined.  `async`, generators and type parameters are not      *)
(* modelled.                                                               *)
parseFunctionExpression(toks, pos) ==
    LET startToken == parserPeek(toks, pos)
        hasName == check(toks, pos + 1, "Identifier")
        p0 == parserMatch(toks, pos + 1, "Identifier")
        lp == expect(toks, p0, "LeftParen", "Expected '('")
        ps == Rule("parseParameterList", <<toks, lp.pos>>)
        rp == expect(toks, ps.pos, "RightParen", "Expected ')'")
        rt == IF check(toks, rp.pos, "Colon") THEN Rule("parseType", <<toks, rp.pos + 1>>)
              ELSE POk(rp.pos, Undefined)
        body == Rule("parseBlockStatement", <<toks, rt.pos>>)
    IN  IF check(toks, pos + 1, "Star") THEN PUnmodelled(pos + 1)
        ELSE IF check(toks, p0, "LessThan") THEN PUnmodelled(p0)
        ELSE IF lp.st # "ok" THEN lp
        ELSE IF ps.st # "ok" THEN ps
        ELSE IF rp.st # "ok" THEN rp
        ELSE IF rt.st # "ok" THEN rt
        ELSE IF body.st # "ok" THEN body
        ELSE POk(body.pos, [kind |-> "FunctionExpression",
                            name |-> IF hasName THEN parserPeek(toks, pos + 1).value
                                     ELSE <<>>,
                            parameters |-> ps.node, returnType |-> rt.node,
                            body |-> body.node, isAsync |-> FALSE,
                            isGenerator |-> FALSE, typeParameters |-> Undefined,
                            line |-> startToken.line])


(* The while loop over the members of parseEnumDeclaration (621-634), from *)
(* the head of an iteration.                                               *)
EnumMembers(toks, pos, members) ==
    IF check(toks, pos, "RightBrace") \/ parserIsAtEnd(toks, pos) THEN POk(pos, members)
    ELSE LET n == expect(toks, pos, "Identifier", "Expected enum member name")
             i == IF check(toks, n.pos, "Equals")
                  THEN Rule("parseExpression", <<toks, n.pos + 1>>)
                  ELSE POk(n.pos, Undefined)
         IN  IF n.st # "ok" THEN n
             ELSE IF i.st # "ok" THEN i
             ELSE Rule("EnumMembers",
                       <<toks, parserMatch(toks, i.pos, "Comma"),
                         Append(members, [name |-> parserPeek(toks, pos).value,
                                          initializer |-> i.node])>>)

parseEnumDeclaration(toks, pos) ==
    LET startToken == parserPeek(toks, pos)
        isConst == check(toks, pos, "Const")
        e == expect(toks, parserMatch(toks, pos, "Const"), "Enum", "Expected 'enum'")
        n == expect(toks, e.pos, "Identifier", "Expected enum name")
        lb == expect(toks, n.pos, "LeftBrace", "Expected '{'")
        ms == Rule("EnumMembers", <<toks, lb.pos, <<>>>>)
        rb == expect(toks, ms.pos, "RightBrace", "Expected '}'")
    IN  IF e.st # "ok" THEN e
        ELSE IF n.st # "ok" THEN n
        ELSE IF lb.st # "ok" THEN lb
        ELSE IF ms.st # "ok" THEN ms
        ELSE IF rb.st # "ok" THEN rb
        ELSE POk(rb.pos, [kind |-> "EnumDeclaration",
                          name |-> parserPeek(toks, e.pos).value,
                          members |-> ms.node, isConst |-> isConst,
                          line |-> startToken.line])

(* parseExportDeclaration(decorators): `export` and an optional `type`     *)
(* before a declaration or before nothing that it knows (1095-1097,        *)
(* 1211-1237).  The decorators are read by the branch                      *)
(* `export default class` only (1110), which is not modelled as are the    *)
(* other forms, so the operator does not take them: the class of           *)
(* `export class` is parsed by parseClassDeclaration() without decorators  *)
(* (1216).                                                                 *)
parseExportDeclaration(toks, pos) ==
    LET startToken == parserPeek(toks, pos)
        isTypeOnly == check(toks, pos + 1, "Type")
        p == parserMatch(toks, pos + 1, "Type")
        d == IF check(toks, p, "Function")
             THEN Rule("parseFunctionDeclaration", <<toks, p>>)
             ELSE IF check(toks, p, "Class")
             THEN Rule("parseClassDeclaration", <<toks, p, <<>>>>)
             ELSE IF check(toks, p, "Interface")
             THEN Rule("parseInterfaceDeclaration", <<toks, p>>)
             ELSE IF check(toks, p, "Type")
             THEN Rule("parseTypeAliasDeclaration", <<toks, p>>)
             ELSE IF check(toks, p, "Enum") THEN Rule("parseEnumDeclaration", <<toks, p>>)
             ELSE IF checkAny(toks, p, {"Let", "Const", "Var"})
             THEN parseVariableDeclaration(toks, p)
             ELSE POk(p, Undefined)
    IN  IF checkAny(toks, p, {"Default", "Star", "LeftBrace"}) THEN PUnmodelled(pos)
        ELSE IF d.st # "ok" THEN d
        ELSE POk(d.pos, [kind |-> "ExportDeclaration", declaration |-> d.node,
                         isTypeOnly |-> isTypeOnly, line |-> startToken.line])

(* The while loop of parseDecorators (384-392), from the head of an        *)
(* iteration.                                                              *)
parseDecorators(toks, pos, decorators) ==
    IF ~check(toks, pos, "At") THEN POk(pos, decorators)
    ELSE LET x == Rule("parseLeftHandSide", <<toks, pos + 1>>) IN
         IF x.st # "ok" THEN x
         ELSE Rule("parseDecorators",
                   <<toks, x.pos,
                     Append(decorators, [kind |-> "Decorator", expression |-> x.node,
                                         line |-> parserPeek(toks, pos).line])>>)

(* The do-while loop of parseParameterList (278-281), from the head of an  *)
(* iteration.                                                              *)
ParameterListRest(toks, pos, parameters) ==
    LET p == Rule("parseParameter", <<toks, pos>>) IN
    IF p.st # "ok" THEN p
    ELSE IF check(toks, p.pos, "Comma") /\ ~check(toks, p.pos + 1, "RightParen")
    THEN Rule("ParameterListRest", <<toks, p.pos + 1, Append(parameters, p.node)>>)
    ELSE POk(parserMatch(toks, p.pos, "Comma"), Append(parameters, p.node))

parseParameterList(toks, pos) ==
    IF check(toks, pos, "RightParen") THEN POk(pos, <<>>)
    ELSE Rule("ParameterListRest", <<toks, pos, <<>>>>)

(* A method of a class, from the token after its name (541-575). *)
ClassMethod(toks, pos, fields) ==
    LET ps == Rule("parseParameterList", <<toks, pos + 1>>)
        rp == expect(toks, ps.pos, "RightParen", "Expected ')'")
        rt == IF check(toks, rp.pos, "Colon") THEN Rule("parseType", <<toks, rp.pos + 1>>)
              ELSE POk(rp.pos, Undefined)
        body == IF check(toks, rt.pos, "LeftBrace")
                THEN Rule("parseBlockStatement", <<toks, rt.pos>>)
                ELSE expect(toks, rt.pos, "Semicolon", "Expected ';' after abstract method")
    IN  IF ps.st # "ok" THEN ps
        ELSE IF rp.st # "ok" THEN rp
        ELSE IF rt.st # "ok" THEN rt
        ELSE IF body.st # "ok" THEN body
        ELSE POk(body.pos, [kind |-> "MethodDeclaration", parameters |-> ps.node,
                            returnType |-> rt.node, body |-> body.node,
                            typeParameters |-> Undefined] @@ fields)

(* A property of a class, from the token after its name (578-603). *)
ClassProperty(toks, pos, fields) ==
    LET t == IF check(toks, pos, "Colon") THEN Rule("parseType", <<toks, pos + 1>>)
             ELSE POk(pos, Undefined)
        i == IF check(toks, t.pos, "Equals") THEN Rule("parseExpression", <<toks, t.pos + 1>>)
             ELSE POk(t.pos, Undefined)
    IN  IF t.st # "ok" THEN t
        ELSE IF i.st # "ok" THEN i
        ELSE POk(parserMatch(toks, i.pos, "Semicolon"),
                 [kind |-> "PropertyDeclaration", typeAnnotation |-> t.node,
                  initializer |-> i.node] @@ fields)

(* parseClassMember.  Constructors, getters, setters and type parameters   *)
(* are not modelled.  Decorators that are undefined are the empty          *)
(* sequence: nothing reads them.                                           *)
parseClassMember(toks, pos) ==
    LET d == IF check(toks, pos, "At") THEN Rule("parseDecorators", <<toks, pos, <<>>>>)
             ELSE POk(pos, <<>>)
        startToken == parserPeek(toks, d.pos)
        hasAccess == checkAny(toks, d.pos, {"Public", "Private", "Protected"})
        p1 == IF hasAccess THEN d.pos + 1 ELSE d.pos
        p2 == parserMatch(toks, p1, "Static")
        p3 == parserMatch(toks, p2, "Readonly")
        p4 == parserMatch(toks, p3, "Abstract")
        p5 == parserMatch(toks, p4 + 1, "Question")
        fields == [name |-> parserPeek(toks, p4).value,
                   accessibility |-> IF hasAccess THEN startToken.value ELSE Undefined,
                   isStatic |-> check(toks, p1, "Static"),
                   isAbstract |-> check(toks, p3, "Abstract"),
                   decorators |-> d.node, line |-> startToken.line]
    IN  IF d.st # "ok" THEN d
        ELSE IF checkAny(toks, p4, {"Constructor", "Get", "Set"}) THEN PUnmodelled(p4)
        ELSE IF ~check(toks, p4, "Identifier") THEN POk(p4, Null)
        ELSE IF check(toks, p5, "LessThan") THEN PUnmodelled(p5)
        ELSE IF check(toks, p5, "LeftParen") THEN ClassMethod(toks, p5, fields)
        ELSE ClassProperty(toks, p5, [isReadonly |-> check(toks, p2, "Readonly")] @@ fields)

(* The while loop over the members of parseClassDeclaration (419-424),     *)
(* from the head of an iteration.  A member that is null and took no token *)
(* leaves the loop where it was: it never ends.                            *)
ClassMembers(toks, pos, members) ==
    IF check(toks, pos, "RightBrace") \/ parserIsAtEnd(toks, pos) THEN POk(pos, members)
    ELSE LET m == Rule("parseClassMember", <<toks, pos>>) IN
         IF m.st # "ok" THEN m
         ELSE IF m.node = Null /\ m.pos = pos THEN PHang(pos)
         ELSE Rule("ClassMembers", <<toks, m.pos,
                                     IF m.node = Null THEN members
                                     ELSE Append(members, m.node)>>)

(* parseClassDeclaration(decorators).  Type parameters and an implements   *)
(* clause are not modelled.                                                *)
parseClassDeclaration(toks, pos, decorators) ==
    LET startToken == parserPeek(toks, pos)
        c == expect(toks, parserMatch(toks, pos, "Abstract"), "Class", "Expected 'class'")
        n == expect(toks, c.pos, "Identifier", "Expected class name")
        s == IF check(toks, n.pos, "Extends") THEN Rule("parseLeftHandSide", <<toks, n.pos + 1>>)
             ELSE POk(n.pos, Undefined)
        lb == expect(toks, s.pos, "LeftBrace", "Expected '{' after class declaration")
        ms == Rule("ClassMembers", <<toks, lb.pos, <<>>>>)
        rb == expect(toks, ms.pos, "RightBrace", "Expected '}' after class body")
    IN  IF c.st # "ok" THEN c
        ELSE IF n.st # "ok" THEN n
        ELSE IF check(toks, n.pos, "LessThan") THEN PUnmodelled(n.pos)
        ELSE IF s.st # "ok" THEN s
        ELSE IF check(toks, s.pos, "Implements") THEN PUnmodelled(s.pos)
        ELSE IF lb.st # "ok" THEN lb
        ELSE IF ms.st # "ok" THEN ms
        ELSE IF rb.st # "ok" THEN rb
        ELSE POk(rb.pos, [kind |-> "ClassDeclaration", name |-> parserPeek(toks, c.pos).value,
                          decorators |-> decorators, superClass |-> s.node,
                          implements |-> Undefined, typeParameters |-> Undefined,
                          members |-> ms.node, isAbstract |-> check(toks, pos, "Abstract"),
                          line |-> startToken.line])

(* parseStatement at decorators (110-123). *)
DecoratedStatement(toks, pos) ==
    LET d == Rule("parseDecorators", <<toks, pos, <<>>>>) IN
    IF d.st # "ok" THEN d
    ELSE IF checkAny(toks, d.pos, {"Class", "Abstract"})
    THEN Rule("parseClassDeclaration", <<toks, d.pos, d.node>>)
    ELSE IF check(toks, d.pos, "Export") THEN Rule("parseExportDeclaration", <<toks, d.pos>>)
    ELSE PThrow(d.pos, "Decorators can only be applied to classes")
parsePrimary(toks, pos) ==
    LET token == parserPeek(toks, pos)
        Leaf(kind) == POk(pos + 1, [kind |-> kind, line |-> token.line])
        Literal(kind, value) ==
            POk(pos + 1, [kind |-> kind, value |-> value, line |-> token.line])
    IN  CASE token.type \in UnmodelledPrimaryTokens -> PUnmodelled(pos)
          [] token.type = "NumberLiteral" ->
               Literal("NumericLiteral", NumberText(token.value))
          [] token.type = "StringLiteral" -> Literal("StringLiteral", token.value)
          [] token.type = "True" -> Literal("BooleanLiteral", <<"t", "r", "u", "e">>)
          [] token.type = "False" -> Literal("BooleanLiteral", <<"f", "a", "l", "s", "e">>)
          [] token.type = "Null" -> Leaf("NullLiteral")
          [] token.type = "Undefined" -> Leaf("UndefinedLiteral")
          [] token.type = "This" -> Leaf("ThisExpression")
          [] token.type = "Super" -> Leaf("SuperExpression")
          [] token.type = "Identifier" ->
               POk(pos + 1, [kind |-> "Identifier", name |-> token.value,
                             line |-> token.line])
          [] token.type = "LeftParen" ->
               Rule("parseParenthesizedOrArrowFunction", <<toks, pos>>)
          [] token.type = "Function" -> Rule("parseFunctionExpression", <<toks, pos>>)
          [] OTHER -> PThrow(pos, "Unexpected token")

parseParameter(toks, pos) ==
    LET rest == check(toks, pos, "Spread")
        p0 == parserMatch(toks, pos, "Spread")
        n == expect(toks, p0, "Identifier", "Expected parameter name")
        optional == check(toks, n.pos, "Question")
        p1 == parserMatch(toks, n.pos, "Question")
        t == IF check(toks, p1, "Colon")
             THEN Rule("parseType", <<toks, p1 + 1>>)
             ELSE POk(p1, Undefined)
        d == IF check(toks, t.pos, "Equals")
             THEN Rule("parseAssignment", <<toks, t.pos + 1>>)
             ELSE POk(t.pos, Undefined)
    IN  IF n.st # "ok" THEN n
        ELSE IF t.st # "ok" THEN t
        ELSE IF d.st # "ok" THEN d
        ELSE POk(d.pos, [name |-> parserPeek(toks, p0).value,
                         typeAnnotation |-> t.node, optional |-> optional,
                         defaultValue |-> d.node, rest |-> rest])

(* The do-while loop over the parameters of an arrow function (2285-2290), *)
(* from the head of an iteration.                                          *)
ArrowParameters(toks, pos, parameters) ==
    LET p == Rule("parseParameter", <<toks, pos>>) IN
    IF p.st # "ok" THEN p
    ELSE IF check(toks, p.pos, "Comma")
    THEN Rule("ArrowParameters", <<toks, p.pos + 1, Append(parameters, p.node)>>)
    ELSE POk(p.pos, Append(parameters, p.node))

(* The try block of parseParenthesizedOrArrowFunction (2281-2316).  A      *)
(* result "ok" with node Undefined stands for falling out of the try block *)
(* because no `=>` follows.                                                *)
TryArrowFunction(toks, pos) ==
    LET startToken == parserPeek(toks, pos)
        ps == IF ~check(toks, pos + 1, "RightParen")
              THEN Rule("ArrowParameters", <<toks, pos + 1, <<>>>>)
              ELSE POk(pos + 1, <<>>)
        rp == expect(toks, ps.pos, "RightParen", "Expected ')'")
        rt == IF check(toks, rp.pos, "Colon")
              THEN Rule("parseType", <<toks, rp.pos + 1>>)
              ELSE POk(rp.pos, Undefined)
        body == IF check(toks, rt.pos + 1, "LeftBrace")
                THEN Rule("parseBlockStatement", <<toks, rt.pos + 1>>)
                ELSE Rule("parseAssignment", <<toks, rt.pos + 1>>)
    IN  IF ps.st # "ok" THEN ps
        ELSE IF rp.st # "ok" THEN rp
        ELSE IF rt.st # "ok" THEN rt
        ELSE IF check(toks, rt.pos, "Arrow")
        THEN IF body.st # "ok" THEN body
             ELSE POk(body.pos, [kind |-> "ArrowFunction", parameters |-> ps.node,
                                 returnType |-> rt.node, body |-> body.node,
                                 line |-> startToken.line])
        ELSE POk(rt.pos, Undefined)

(* The catch clause catches every exception of the attempt; a loop that    *)
(* never exits inside the attempt never reaches it.                        *)
parseParenthesizedOrArrowFunction(toks, pos) ==
    LET startToken == parserPeek(toks, pos)
        arrow == Rule("TryArrowFunction", <<toks, pos>>)
        x == Rule("parseExpression", <<toks, RestoredPosition(pos, arrow) + 1>>)
        rp == expect(toks, x.pos, "RightParen", "Expected ')'")
    IN  IF arrow.st \in {"hang", "unmodelled"} THEN arrow
        ELSE IF arrow.st = "ok" /\ arrow.node # Undefined THEN arrow
        ELSE IF x.st # "ok" THEN x
        ELSE IF rp.st # "ok" THEN rp
        ELSE POk(rp.pos, [kind |-> "ParenthesizedExpression", expression |-> x.node,
                          line |-> startToken.line])

(* The methods of the Parser that call one another: Rule(name, args) is    *)
(* the call this.name(...args).                                            *)
Rule(name, args) ==
    CASE name = "parseStatement" -> parseStatement(args[1], args[2])
      [] name = "StatementLoop" ->
           StatementLoop(args[1], args[2], args[3], args[4], args[5])
      [] name = "parseBlockStatement" -> parseBlockStatement(args[1], args[2])
      [] name = "parseSwitchStatement" -> parseSwitchStatement(args[1], args[2])
      [] name = "SwitchCases" -> SwitchCases(args[1], args[2], args[3])
      [] name = "parseForStatement" -> parseForStatement(args[1], args[2])
      [] name = "parseType" -> parseType(args[1], args[2])
      [] name = "parseIntersectionType" -> parseIntersectionType(args[1], args[2])
      [] name = "parseArrayType" -> parseArrayType(args[1], args[2])
      [] name = "parseExpression" -> parseExpression(args[1], args[2])
      [] name = "parseAssignment" -> parseAssignment(args[1], args[2])
      [] name = "parseBinary" -> parseBinary(args[1], args[2], args[3])
      [] name = "BinaryRest" -> BinaryRest(args[1], args[2], args[3], args[4])
      [] name = "BinaryUp" -> BinaryUp(args[1], args[2], args[3], args[4])
      [] name = "parseExponentiation" -> parseExponentiation(args[1], args[2])
      [] name = "parseUnary" -> parseUnary(args[1], args[2])
      [] name = "parseCallMemberExpression" ->
           parseCallMemberExpression(args[1], args[2], args[3])
      [] name = "Arguments" -> Arguments(args[1], args[2], args[3])
      [] name = "ArrowParameters" -> ArrowParameters(args[1], args[2], args[3])
      [] name = "parsePrimary" -> parsePrimary(args[1], args[2])
      [] name = "parseParenthesizedOrArrowFunction" ->
           parseParenthesizedOrArrowFunction(args[1], args[2])
      [] name = "parseConditional" -> parseConditional(args[1], args[2])
      [] name = "parsePostfix" -> parsePostfix(args[1], args[2])
      [] name = "parseParameter" -> parseParameter(args[1], args[2])
      [] name = "parseEnumDeclaration" -> parseEnumDeclaration(args[1], args[2])
      [] name = "parseLeftHandSide" -> parseLeftHandSide(args[1], args[2])
      [] name = "parseDecorators" -> parseDecorators(args[1], args[2], args[3])
      [] name = "ParameterListRest" -> ParameterListRest(args[1], args[2], args[3])
      [] name = "parseParameterList" -> parseParameterList(args[1], args[2])
      [] name = "parseClassMember" -> parseClassMember(args[1], args[2])
      [] name = "ClassMembers" -> ClassMembers(args[1], args[2], args[3])
      [] name = "parseClassDeclaration" ->
           parseClassDeclaration(args[1], args[2], args[3])
      [] name = "DecoratedStatement" -> DecoratedStatement(args[1], args[2])
      [] name = "EnumMembers" -> EnumMembers(args[1], args[2], args[3])
      [] name = "parseExportDeclaration" -> parseExportDeclaration(args[1], args[2])
      [] name = "parseFunctionDeclaration" -> parseFunctionDeclaration(args[1], args[2])
      [] name = "parseFunctionExpression" -> parseFunctionExpression(args[1], args[2])
      [] name = "parseInterfaceDeclaration" -> parseInterfaceDeclaration(args[1], args[2])
      [] name = "InterfaceMembers" -> InterfaceMembers(args[1], args[2], args[3])
      [] name = "parseTypeAliasDeclaration" -> parseTypeAliasDeclaration(args[1], args[2])
      [] name = "TryArrowFunction" -> TryArrowFunction(args[1], args[2])
      [] name = "TryTypeArguments" -> TryTypeArguments(args[1], args[2], args[3])
      [] name = "TypeArguments" -> TypeArguments(args[1], args[2], args[3])
      [] name = "ArrayTypeRest" -> ArrayTypeRest(args[1], args[2], args[3])
      [] name = "TypeListRest" ->
           TypeListRest(args[1], args[2], args[3], args[4], args[5])

(* parse(tokens): new Parser(tokens).parse(). *)
parse(toks) == parseProgram(toks)

(***************************************************************************)
(* Emitter (src/emitter.ts)                                                *)
(*                                                                         *)
(* The Emitter object is a record E with its output text, its indentLevel  *)
(* and the exception that ended it (st/msg).  A function that returns a    *)
(* string is an operator with result [st, text, msg].  Reading a property  *)
(* of undefined or null throws a TypeError.                                *)
(***************************************************************************)
EmitterInit == [st |-> "ok", output |-> <<>>, indentLevel |-> 0, msg |-> ""]

(* String(n) of a natural number. *)
RECURSIVE NatText(_)
NatText(n) ==
    LET digit == <<"0", "1", "2", "3", "4", "5", "6", "7", "8", "9">>[(n % 10) + 1] IN
    IF n < 10 THEN <<digit>> ELSE Append(NatText(n \div 10), digit)

Text(t) == [st |-> "ok", text |-> t, msg |-> ""]
TypeError == [st |-> "throw", text |-> <<>>,
              msg |-> "Cannot read properties of undefined"]
EmitterThrow(E, m) == [E EXCEPT !.st = "throw", !.msg = m]

(* The template string whose parts are the results rs, evaluated left to   *)
(* right; sep is put between consecutive parts (Array.prototype.join).     *)
RECURSIVE Joined(_, _)
Joined(rs, sep) ==
    IF rs = <<>> THEN Text(<<>>)
    ELSE IF Head(rs).st # "ok" THEN Head(rs)
    ELSE IF Len(rs) = 1 THEN Head(rs)
    ELSE LET rest == Joined(Tail(rs), sep) IN
         IF rest.st # "ok" THEN rest
         ELSE Text(Head(rs).text \o sep \o rest.text)

Template(rs) == Joined(rs, <<>>)

(* JSON.stringify of a string value. *)
JSONStringify(value) ==
    LET Escaped(c) ==
            IF c = "\"" THEN <<"\\", "\"">>
            ELSE IF c = "\\" THEN <<"\\", "\\">>
            ELSE IF c = "\n" THEN <<"\\", "n">>
            ELSE IF c = "\t" THEN <<"\\", "t">>
            ELSE IF c = "\r" THEN <<"\\", "r">>
            ELSE IF c = NUL THEN <<"\\", "u", "0", "0", "0", "0">>
            ELSE <<c>>
    IN  <<"\"">> \o Joined([i \in 1..Len(value) |-> Text(Escaped(value[i]))], <<>>).text
          \o <<"\"">>

RECURSIVE emitExpression(_)
RECURSIVE emitStatementInline(_)
RECURSIVE emitIfStatementInline(_)

(* `{ ${statements.map(s => emitStatementInline(s)).join(" ")} }` *)
InlineBlock(statements) ==
    Template(<<Text(<<"{", " ">>),
               Joined([i \in 1..Len(statements) |-> emitStatementInline(statements[i])],
                      <<" ">>),
               Text(<<" ", "}">>)>>)

(* The printed parameter list of an arrow function (emitter.ts 753-763). *)
ArrowParams(parameters) ==
    Joined([i \in 1..Len(parameters) |->
               LET p == parameters[i] IN
               Template(<<Text(IF p.rest THEN <<".", ".", ".">> ELSE <<>>),
                          Text(p.name),
                          IF p.defaultValue # Undefined
                          THEN Template(<<Text(<<" ", "=", " ">>), emitExpression(p.defaultValue)>>)
                          ELSE Text(<<>>)>>)],
           <<",", " ">>)

emitExpression(expr) ==
    LET kind == expr.kind
        Infix == Template(<<emitExpression(expr.left), Text(<<" ">>),
                            Text(expr.operator), Text(<<" ">>),
                            emitExpression(expr.right)>>)
    IN  IF kind \in {"undefined", "null"} THEN TypeError
        ELSE IF kind = "FunctionExpression"
        THEN [st |-> "unmodelled", text |-> <<>>, msg |-> ""]
        ELSE IF kind \in {"NumericLiteral", "BooleanLiteral"} THEN Text(expr.value)
        ELSE IF kind = "StringLiteral" THEN Text(JSONStringify(expr.value))
        ELSE IF kind = "NullLiteral" THEN Text(<<"n", "u", "l", "l">>)
        ELSE IF kind = "UndefinedLiteral" THEN Text(<<"u", "n", "d", "e", "f", "i", "n", "e", "d">>)
        ELSE IF kind = "Identifier" THEN Text(expr.name)
        ELSE IF kind = "ThisExpression" THEN Text(<<"t", "h", "i", "s">>)
        ELSE IF kind = "SuperExpression" THEN Text(<<"s", "u", "p", "e", "r">>)
        ELSE IF kind \in {"BinaryExpression", "AssignmentExpression", "LogicalExpression"}
        THEN Infix
        ELSE IF kind = "UnaryExpression"
        THEN IF expr.prefix
             THEN Template(<<Text(expr.operator),
                             Text(IF expr.operator \in {<<"t", "y", "p", "e", "o", "f">>, <<"d", "e", "l", "e", "t", "e">>}
                                  THEN <<" ">> ELSE <<>>),
                             emitExpression(expr.operand)>>)
             ELSE Template(<<emitExpression(expr.operand), Text(expr.operator)>>)
        ELSE IF kind = "UpdateExpression"
        THEN IF expr.prefix
             THEN Template(<<Text(expr.operator), emitExpression(expr.argument)>>)
             ELSE Template(<<emitExpression(expr.argument), Text(expr.operator)>>)
        ELSE IF kind = "CallExpression"
        THEN Template(<<emitExpression(expr.callee), Text(<<"(">>),
                        Joined([i \in 1..Len(expr.arguments) |->
                                   emitExpression(expr.arguments[i])], <<",", " ">>),
                        Text(<<")">>)>>)
        ELSE IF kind = "MemberExpression"
        THEN Template(<<emitExpression(expr.object), Text(<<".">>), Text(expr.property)>>)
        ELSE IF kind = "ConditionalExpression"
        THEN Template(<<emitExpression(expr.condition), Text(<<" ", "?", " ">>),
                        emitExpression(expr.consequent), Text(<<" ", ":", " ">>),
                        emitExpression(expr.alternate)>>)
        ELSE IF kind = "ArrowFunction"
        THEN LET params == ArrowParams(expr.parameters)
                 body == IF expr.body.kind = "BlockStatement"
                         THEN InlineBlock(expr.body.statements)
                         ELSE emitExpression(expr.body)
             IN  IF /\ Len(expr.parameters) = 1
                    /\ expr.parameters[1].typeAnnotation = Undefined
                    /\ expr.parameters[1].defaultValue = Undefined
                 THEN Template(<<params, Text(<<" ", "=", ">", " ">>), body>>)
                 ELSE Template(<<Text(<<"(">>), params, Text(<<")", " ", "=", ">", " ">>), body>>)
        ELSE IF kind \in {"AsExpression", "NonNullExpression"}
        THEN emitExpression(expr.expression)
        ELSE IF kind = "ParenthesizedExpression"
        THEN Template(<<Text(<<"(">>), emitExpression(expr.expression), Text(<<")">>)>>)
        ELSE Text(<<>>)

(* `${varKind} ${name}[ = ${initializer}]` of a variable declaration. *)
DeclarationText(decl) ==
    Template(<<Text(decl.varKind), Text(<<" ">>), Text(decl.name),
               IF decl.initializer # Undefined
               THEN Template(<<Text(<<" ", "=", " ">>), emitExpression(decl.initializer)>>)
               ELSE Text(<<>>)>>)

(* A ForInStatement has no iterable field (its expression is in object)    *)
(* and neither loop has a variableKind field: those reads give undefined.  *)
(* The variable is an object, printed by the template as [object Object].  *)
emitStatementInline(stmt) ==
    LET kind == stmt.kind IN
    IF kind \in {"undefined", "null"} THEN TypeError
    ELSE IF kind = "ReturnStatement"
    THEN IF stmt.argument # Undefined
         THEN Template(<<Text(<<"r", "e", "t", "u", "r", "n", " ">>), emitExpression(stmt.argument), Text(<<";">>)>>)
         ELSE Text(<<"r", "e", "t", "u", "r", "n", ";">>)
    ELSE IF kind = "ExpressionStatement"
    THEN Template(<<emitExpression(stmt.expression), Text(<<";">>)>>)
    ELSE IF kind = "VariableDeclaration"
    THEN Template(<<DeclarationText(stmt), Text(<<";">>)>>)
    ELSE IF kind = "BreakStatement"
    THEN IF stmt.label # <<>>
         THEN Template(<<Text(<<"b", "r", "e", "a", "k", " ">>), Text(stmt.label), Text(<<";">>)>>)
         ELSE Text(<<"b", "r", "e", "a", "k", ";">>)
    ELSE IF kind = "IfStatement" THEN emitIfStatementInline(stmt)
    ELSE IF kind = "BlockStatement" THEN InlineBlock(stmt.statements)
    ELSE IF kind \in {"ForOfStatement", "ForInStatement"}
    THEN LET keyword == IF kind = "ForOfStatement" THEN <<"o", "f">> ELSE <<"i", "n">>
             variable == <<"c", "o", "n", "s", "t", " ", "[", "o", "b", "j", "e", "c", "t", " ", "O", "b", "j", "e", "c", "t", "]">>
             bodyStr == emitStatementInline(stmt.body)
             iterable == IF kind = "ForOfStatement" THEN stmt.iterable ELSE Undefined
         IN  IF bodyStr.st # "ok" THEN bodyStr
             ELSE Template(<<Text(<<"f", "o", "r", " ", "(">>), Text(variable), Text(<<" ">>),
                             Text(keyword), Text(<<" ">>), emitExpression(iterable),
                             Text(<<")", " ">>), bodyStr>>)
    ELSE Text(<<>>)

emitIfStatementInline(stmt) ==
    LET Branch(s) == IF s.kind = "BlockStatement"
                     THEN InlineBlock(s.statements)
                     ELSE emitStatementInline(s)
    IN  Template(<<Text(<<"i", "f", " ", "(">>), emitExpression(stmt.condition), Text(<<")", " ">>),
                   Branch(stmt.consequent),
                   IF stmt.alternate # Undefined
                   THEN Template(<<Text(<<" ", "e", "l", "s", "e", " ">>),
                                   IF stmt.alternate.kind = "IfStatement"
                                   THEN emitIfStatementInline(stmt.alternate)
                                   ELSE Branch(stmt.alternate)>>)
                   ELSE Text(<<>>)>>)

indent(E) == [i \in 1..(2 * E.indentLevel) |-> " "]
emitLine(E, line) == [E EXCEPT !.output = @ \o indent(E) \o line \o <<"\n">>]
(* emitLine of a template string that may throw while it is evaluated. *)
EmitLineOf(E, r) == IF r.st # "ok" THEN EmitterThrow(E, r.msg) ELSE emitLine(E, r.text)
Indented(E, d) == [E EXCEPT !.indentLevel = @ + d]

(* String.prototype.trimEnd for the white space the emitter writes. *)
trimEnd(s) ==
    LET keep == IF \E k \in 1..Len(s) : s[k] \notin {" ", "\n", "\t", "\r"}
                THEN CHOOSE k \in 1..Len(s) :
                         /\ s[k] \notin {" ", "\n", "\t", "\r"}
                         /\ \A j \in (k + 1)..Len(s) : s[j] \in {" ", "\n", "\t", "\r"}
                ELSE 0
    IN  SubSeq(s, 1, keep)

RECURSIVE emitStatement(_, _)
RECURSIVE EmitStatements(_, _)
RECURSIVE emitIfStatement(_, _)

(* for (const s of statements) this.emitStatement(s) *)
EmitStatements(E, statements) ==
    IF E.st # "ok" \/ statements = <<>> THEN E
    ELSE EmitStatements(emitStatement(E, Head(statements)), Tail(statements))

(* The body of a loop or a branch of an if, one level deeper: the          *)
(* statements of a block, or the single statement (emitter.ts 306-312).    *)
EmitBody(E, body) ==
    LET E1 == Indented(E, 1)
        E2 == IF body.kind \in {"undefined", "null"}
              THEN EmitterThrow(E1, TypeError.msg)
              ELSE IF body.kind = "BlockStatement"
              THEN EmitStatements(E1, body.statements)
              ELSE emitStatement(E1, body)
    IN  IF E.st # "ok" THEN E
        ELSE IF E2.st # "ok" THEN E2
        ELSE Indented(E2, -1)

(* A loop statement: its head line, its body and the closing brace. *)
EmitLoop(E, head, body) ==
    LET E1 == EmitBody(EmitLineOf(E, head), body) IN
    IF E1.st # "ok" THEN E1 ELSE emitLine(E1, <<"}">>)

emitIfStatement(E, stmt) ==
    LET head == Template(<<Text(<<"i", "f", " ", "(">>), emitExpression(stmt.condition),
                           Text(<<")", " ", "{">>)>>)
        E1 == EmitBody(EmitLineOf(E, head), stmt.consequent)
    IN  IF E1.st # "ok" THEN E1
        ELSE IF stmt.alternate # Undefined
        THEN IF stmt.alternate.kind = "IfStatement"
             THEN emitIfStatement([E1 EXCEPT !.output = trimEnd(@) \o <<"}", " ", "e", "l", "s", "e", " ">>],
                                  stmt.alternate)
             ELSE LET E2 == EmitBody(emitLine(E1, <<"}", " ", "e", "l", "s", "e", " ", "{">>), stmt.alternate) IN
                  IF E2.st # "ok" THEN E2 ELSE emitLine(E2, <<"}">>)
        ELSE emitLine(E1, <<"}">>)

emitForStatement(E, stmt) ==
    LET init == IF stmt.init # Undefined
                THEN IF stmt.init.kind = "VariableDeclaration"
                     THEN DeclarationText(stmt.init)
                     ELSE emitExpression(stmt.init)
                ELSE Text(<<>>)
        Opt(x) == IF x # Undefined THEN emitExpression(x) ELSE Text(<<>>)
    IN  EmitLoop(E, Template(<<Text(<<"f", "o", "r", " ", "(">>), init, Text(<<";", " ">>),
                               Opt(stmt.condition), Text(<<";", " ">>),
                               Opt(stmt.update), Text(<<")", " ", "{">>)>>),
                 stmt.body)

(* emitForOfStatement and emitForInStatement; the variable of a parsed     *)
(* loop is always a VariableDeclaration.                                   *)
emitForEachStatement(E, stmt) ==
    LET of == stmt.kind = "ForOfStatement"
        keyword == IF of /\ stmt.isAwait THEN <<"f", "o", "r", " ", "a", "w", "a", "i", "t">> ELSE <<"f", "o", "r">>
    IN  EmitLoop(E, Template(<<Text(keyword), Text(<<" ", "(">>),
                               Text(stmt.variable.varKind), Text(<<" ">>),
                               Text(stmt.variable.name),
                               Text(IF of THEN <<" ", "o", "f", " ">> ELSE <<" ", "i", "n", " ">>),
                               emitExpression(IF of THEN stmt.iterable ELSE stmt.object),
                               Text(<<")", " ", "{">>)>>),
                 stmt.body)

(* The loop over the cases of emitSwitchStatement (456-467). *)
RECURSIVE EmitCases(_, _)
EmitCases(E, cases) ==
    IF E.st # "ok" \/ cases = <<>> THEN E
    ELSE LET caseClause == Head(cases)
             E1 == IF caseClause.test # Undefined
                   THEN EmitLineOf(E, Template(<<Text(<<"c", "a", "s", "e", " ">>),
                                                 emitExpression(caseClause.test),
                                                 Text(<<":">>)>>))
                   ELSE emitLine(E, <<"d", "e", "f", "a", "u", "l", "t", ":">>)
             E2 == EmitStatements(Indented(E1, 1), caseClause.consequent)
         IN  IF E1.st # "ok" THEN E1
             ELSE IF E2.st # "ok" THEN E2
             ELSE EmitCases(Indented(E2, -1), Tail(cases))

emitSwitchStatement(E, stmt) ==
    LET E1 == EmitLineOf(E, Template(<<Text(<<"s", "w", "i", "t", "c", "h", " ", "(">>),
                                       emitExpression(stmt.discriminant),
                                       Text(<<")", " ", "{">>)>>))
        E2 == EmitCases(Indented(E1, 1), stmt.cases)
    IN  IF E1.st # "ok" THEN E1
        ELSE IF E2.st # "ok" THEN E2
        ELSE emitLine(Indented(E2, -1), <<"}">>)

(* The for loop over the members of emitEnumDeclaration (262-287), from    *)
(* the head of an iteration.  A value of type number is printed by         *)
(* String(); the numeric initializers of the modelled inputs are whole     *)
(* numbers written in digits.                                              *)
(* A counter that a numeric initializer does not reset. *)
NextEnumValue_NoReset(currentValue, init) ==
    IF init = Undefined THEN currentValue + 1 ELSE currentValue

(* currentValue after a member (264-275). *)
NextEnumValue(currentValue, init) ==
    IF init = Undefined THEN currentValue + 1
    ELSE IF init.kind = "NumericLiteral" THEN DigitsValue(init.value) + 1
    ELSE currentValue

RECURSIVE EmitEnumMembers(_, _, _, _)
EmitEnumMembers(E, name, members, currentValue) ==
    IF E.st # "ok" \/ members = <<>> THEN E
    ELSE LET member == Head(members)
             init == member.initializer
             TwoWay(value) ==
                 emitLine(E, name \o <<"[">> \o name \o <<"[", "\"">> \o member.name
                               \o <<"\"", "]", " ", "=", " ">> \o value \o <<"]", " ", "=", " ", "\"">> \o member.name
                               \o <<"\"", ";">>)
             OneWay(value) ==
                 EmitLineOf(E, Template(<<Text(name \o <<"[", "\"">> \o member.name \o <<"\"", "]", " ", "=", " ">>),
                                          value, Text(<<";">>)>>))
             E1 == IF init = Undefined THEN TwoWay(NatText(currentValue))
                   ELSE IF init.kind = "NumericLiteral" THEN TwoWay(init.value)
                   ELSE IF init.kind = "StringLiteral"
                   THEN OneWay(Text(<<"\"">> \o init.value \o <<"\"">>))
                   ELSE OneWay(emitExpression(init))
         IN  IF init # Undefined /\ init.kind = "NumericLiteral"
                /\ ~(Range(init.value) \subseteq Range(DigitChars))
             THEN [E EXCEPT !.st = "unmodelled"]
             ELSE EmitEnumMembers(E1, name, Tail(members), NextEnumValue(currentValue, init))

emitEnumDeclaration(E, decl) ==
    IF decl.isConst
    THEN emitLine(E, <<"/", "/", " ", "c", "o", "n", "s", "t", " ", "e", "n", "u", "m", " ">> \o decl.name \o <<" ", "-", " ", "i", "n", "l", "i", "n", "e", "d">>)
    ELSE LET E1 == emitLine(emitLine(E, <<"v", "a", "r", " ">> \o decl.name \o <<";">>),
                            <<"(", "f", "u", "n", "c", "t", "i", "o", "n", " ", "(">> \o decl.name \o <<")", " ", "{">>)
             E2 == EmitEnumMembers(Indented(E1, 1), decl.name, decl.members, 0)
         IN  IF E2.st # "ok" THEN E2
             ELSE emitLine(Indented(E2, -1),
                           <<"}", ")", "(">> \o decl.name \o <<" ", "|", "|", " ", "(">> \o decl.name \o <<" ", "=", " ", "{", "}", ")", ")", ";">>)

(* emitExportDeclaration for `export` before a declaration or before       *)
(* nothing (600-627); the parser model builds no other form.  The output   *)
(* for an exported class, function, interface or type alias is not         *)
(* modelled.                                                               *)
emitExportDeclaration(E, decl) ==
    IF decl.declaration = Undefined THEN E
    ELSE LET E1 == [E EXCEPT !.output = @ \o indent(E) \o <<"e", "x", "p", "o", "r", "t", " ">>] IN
         IF decl.declaration.kind = "VariableDeclaration"
         THEN LET line == DeclarationText(decl.declaration) IN
              IF line.st # "ok" THEN EmitterThrow(E1, line.msg)
              ELSE [E1 EXCEPT !.output = @ \o line.text \o <<";", "\n">>]
         ELSE IF decl.declaration.kind = "EnumDeclaration"
         THEN emitEnumDeclaration(E1, decl.declaration)
         ELSE IF decl.declaration.kind \in {"ClassDeclaration", "FunctionDeclaration",
                                            "InterfaceDeclaration",
                                            "TypeAliasDeclaration"}
         THEN [E1 EXCEPT !.st = "unmodelled"]
         ELSE E1

(* emitClassMember for a property and a method; the parser model builds   *)
(* no other member.  The fields isAsync of a method is never set.          *)
emitClassMember(E, member) ==
    LET prefix == IF member.isStatic THEN <<"s", "t", "a", "t", "i", "c", " ">> ELSE <<>> IN
    IF E.st # "ok" THEN E
    ELSE IF member.kind = "PropertyDeclaration"
    THEN EmitLineOf(E, Template(<<Text(prefix \o member.name),
                                  IF member.initializer # Undefined
                                  THEN Template(<<Text(<<" ", "=", " ">>),
                                                  emitExpression(member.initializer)>>)
                                  ELSE Text(<<>>),
                                  Text(<<";">>)>>))
    ELSE IF member.kind = "MethodDeclaration"
    THEN LET params == ArrowParams(member.parameters) IN
         IF params.st # "ok" THEN EmitterThrow(E, params.msg)
         ELSE IF member.body # Undefined
         THEN LET E1 == EmitStatements(
                            Indented(emitLine(E, prefix \o member.name \o <<"(">>
                                                   \o params.text \o <<")", " ", "{">>), 1),
                            member.body.statements)
              IN  IF E1.st # "ok" THEN E1 ELSE emitLine(Indented(E1, -1), <<"}">>)
         ELSE emitLine(E, <<"/", "/", " ", "a", "b", "s", "t", "r", "a", "c", "t", " ">> \o member.name \o <<"(">> \o params.text
                            \o <<")">>)
    ELSE E

RECURSIVE EmitClassMembers(_, _)
EmitClassMembers(E, members) ==
    IF E.st # "ok" \/ members = <<>> THEN E
    ELSE EmitClassMembers(emitClassMember(E, Head(members)), Tail(members))

emitClassDeclaration(E, decl) ==
    LET line == Template(<<Text(IF decl.isAbstract THEN <<"/", "*", " ", "a", "b", "s", "t", "r", "a", "c", "t", " ", "*", "/", " ">> ELSE <<>>),
                           Text(<<"c", "l", "a", "s", "s", " ">> \o decl.name),
                           IF decl.superClass # Undefined
                           THEN Template(<<Text(<<" ", "e", "x", "t", "e", "n", "d", "s", " ">>),
                                           emitExpression(decl.superClass)>>)
                           ELSE Text(<<>>),
                           Text(<<" ", "{">>)>>)
        E1 == EmitClassMembers(Indented(EmitLineOf(E, line), 1), decl.members)
    IN  IF E1.st # "ok" THEN E1 ELSE emitLine(Indented(E1, -1), <<"}">>)

(* The output for a function, interface or type alias declaration is not  *)
(* modelled.                                                               *)
emitStatement(E, stmt) ==
    LET kind == stmt.kind IN
    IF E.st # "ok" THEN E
    ELSE IF kind \in {"undefined", "null"} THEN EmitterThrow(E, TypeError.msg)
    ELSE IF kind = "VariableDeclaration"
    THEN EmitLineOf(E, Template(<<DeclarationText(stmt), Text(<<";">>)>>))
    ELSE IF kind = "ReturnStatement"
    THEN IF stmt.argument # Undefined
         THEN EmitLineOf(E, Template(<<Text(<<"r", "e", "t", "u", "r", "n", " ">>), emitExpression(stmt.argument),
                                       Text(<<";">>)>>))
         ELSE emitLine(E, <<"r", "e", "t", "u", "r", "n", ";">>)
    ELSE IF kind = "IfStatement" THEN emitIfStatement(E, stmt)
    ELSE IF kind = "WhileStatement"
    THEN EmitLoop(E, Template(<<Text(<<"w", "h", "i", "l", "e", " ", "(">>), emitExpression(stmt.condition),
                                Text(<<")", " ", "{">>)>>),
                  stmt.body)
    ELSE IF kind = "ForStatement" THEN emitForStatement(E, stmt)
    ELSE IF kind \in {"ForOfStatement", "ForInStatement"}
    THEN emitForEachStatement(E, stmt)
    ELSE IF kind = "SwitchStatement" THEN emitSwitchStatement(E, stmt)
    ELSE IF kind = "BreakStatement"
    THEN emitLine(E, IF stmt.label # <<>>
                     THEN <<"b", "r", "e", "a", "k", " ">> \o stmt.label \o <<";">>
                     ELSE <<"b", "r", "e", "a", "k", ";">>)
    ELSE IF kind = "ExpressionStatement"
    THEN EmitLineOf(E, Template(<<emitExpression(stmt.expression), Text(<<";">>)>>))
    ELSE IF kind = "BlockStatement"
    THEN LET E1 == EmitStatements(Indented(emitLine(E, <<"{">>), 1), stmt.statements) IN
         IF E1.st # "ok" THEN E1 ELSE emitLine(Indented(E1, -1), <<"}">>)
    ELSE IF kind = "EmptyStatement" THEN emitLine(E, <<";">>)
    ELSE IF kind = "ClassDeclaration" THEN emitClassDeclaration(E, stmt)
    ELSE IF kind = "EnumDeclaration" THEN emitEnumDeclaration(E, stmt)
    ELSE IF kind = "ExportDeclaration" THEN emitExportDeclaration(E, stmt)
    ELSE IF kind \in {"FunctionDeclaration", "InterfaceDeclaration", "TypeAliasDeclaration"}
    THEN [E EXCEPT !.st = "unmodelled"]
    ELSE E

(* emit(program): new Emitter().emit(program). *)
emit(program) == EmitStatements(EmitterInit, program.statements)

(***************************************************************************)
(* Type checker (src/checker.ts)                                           *)
(*                                                                         *)
(* The TypeChecker object is a record C: its errors, the chain of          *)
(* TypeEnvironments from the global one to currentEnv (envs, each the Map  *)
(* of its symbols), the Map of the types of the global environment         *)
(* (types), currentReturnType, inLoop and the exception that ended it      *)
(* (st/msg).  A method that returns a Type returns the checker after    *)
(* the call together with the type.  A message is the text of its template *)
(* string with the values substituted into it (args).                      *)
(***************************************************************************)
Msg(text, args) == [text |-> text, args |-> args]
NoType == [kind |-> "<none>"]
R(C, type) == [C |-> C, type |-> type]

(* registerBuiltins: the symbols of the global environment. *)
Builtins ==
    LET logFn == FunctionType(<<[name |-> <<".", ".", ".", "a", "r", "g", "s">>, type |-> createAnyType,
                                 optional |-> TRUE]>>, createVoidType)
        Fn(key) == [key |-> key, type |-> logFn, optional |-> FALSE]
        Sym(key, kind) == [key |-> key, type |-> createAnyType, kind |-> kind]
    IN  << [key |-> <<"c", "o", "n", "s", "o", "l", "e">>, kind |-> "variable",
            type |-> InterfaceType(<<"C", "o", "n", "s", "o", "l", "e">>,
                         <<Fn(<<"l", "o", "g">>), Fn(<<"e", "r", "r", "o", "r">>), Fn(<<"w", "a", "r", "n">>),
                           Fn(<<"i", "n", "f", "o">>), Fn(<<"d", "e", "b", "u", "g">>)>>)],
           Sym(<<"A", "r", "r", "a", "y">>, "variable"), Sym(<<"O", "b", "j", "e", "c", "t">>, "variable"),
           Sym(<<"M", "a", "t", "h">>, "variable"), Sym(<<"J", "S", "O", "N">>, "variable"),
           Sym(<<"E", "r", "r", "o", "r">>, "class") >>

CheckerInit ==
    [st |-> "ok", msg |-> "", errors |-> <<>>, envs |-> <<Builtins>>,
     types |-> <<[key |-> <<"P", "r", "o", "m", "i", "s", "e">>, type |-> createAnyType]>>,
     currentReturnType |-> NoType, inLoop |-> FALSE]

addError(C, text, args, line) ==
    [C EXCEPT !.errors = Append(@, [message |-> Msg(text, args), line |-> line])]

(* TypeEnvironment: define and hasLocal act on currentEnv, lookup walks    *)
(* the parent chain.                                                       *)
define(C, name, entry) ==
    [C EXCEPT !.envs[Len(C.envs)] = MapSet(@, [key |-> name] @@ entry)]
(* A symbol entry of kind "variable" without the optional field mutable. *)
Variable(type) == [type |-> type, kind |-> "variable"]
Declared(C, name) == \E k \in 1..Len(C.envs) : MapHas(C.envs[k], name)
(* A hasLocal that walks the parent chain as lookup does. *)
hasLocal_Walks(C, name) == Declared(C, name)
hasLocal(C, name) == MapHas(C.envs[Len(C.envs)], name)
lookup(C, name) ==
    LET k == CHOOSE k \in 1..Len(C.envs) :
                 /\ MapHas(C.envs[k], name)
                 /\ \A j \in (k + 1)..Len(C.envs) : ~MapHas(C.envs[j], name)
    IN  MapGet(C.envs[k], name)
(* lookupType: the global environment alone has entries in its types Map,  *)
(* the builtin Promise and the types that the collecting passes define.    *)
lookupType(C, name) ==
    IF MapHas(C.types, name) THEN MapGet(C.types, name).type ELSE NoType
NewEnvironment(C) == [C EXCEPT !.envs = Append(@, <<>>)]
(* An exit that leaves the environment of the scope as the current one. *)
RestoreEnvironment_Keep(C) == C

RestoreEnvironment(C) ==
    IF C.st # "ok" THEN C ELSE [C EXCEPT !.envs = SubSeq(@, 1, Len(@) - 1)]

RECURSIVE JoinText(_, _)
JoinText(texts, sep) ==
    IF texts = <<>> THEN <<>>
    ELSE IF Len(texts) = 1 THEN texts[1]
    ELSE texts[1] \o sep \o JoinText(Tail(texts), sep)

RECURSIVE Visit(_, _)

typeToString(type) ==
    LET Each(ts) == [i \in 1..Len(ts) |-> Visit("typeToString", <<ts[i]>>)] IN
    IF type.kind = "number" THEN <<"n", "u", "m", "b", "e", "r">>
    ELSE IF type.kind = "string" THEN <<"s", "t", "r", "i", "n", "g">>
    ELSE IF type.kind = "boolean" THEN <<"b", "o", "o", "l", "e", "a", "n">>
    ELSE IF type.kind = "void" THEN <<"v", "o", "i", "d">>
    ELSE IF type.kind = "null" THEN <<"n", "u", "l", "l">>
    ELSE IF type.kind = "undefined" THEN <<"u", "n", "d", "e", "f", "i", "n", "e", "d">>
    ELSE IF type.kind = "any" THEN <<"a", "n", "y">>
    ELSE IF type.kind = "unknown" THEN <<"u", "n", "k", "n", "o", "w", "n">>
    ELSE IF type.kind = "never" THEN <<"n", "e", "v", "e", "r">>
    ELSE IF type.kind = "symbol" THEN <<"s", "y", "m", "b", "o", "l">>
    ELSE IF type.kind = "bigint" THEN <<"b", "i", "g", "i", "n", "t">>
    ELSE IF type.kind = "literal"
    THEN IF type.typeOf = "string" THEN <<"\"">> \o type.value \o <<"\"">>
         ELSE type.value
    ELSE IF type.kind = "array" THEN Visit("typeToString", <<type.elementType>>) \o <<"[", "]">>
    ELSE IF type.kind = "tuple"
    THEN <<"[">> \o JoinText(Each(type.elementTypes), <<",", " ">>) \o <<"]">>
    ELSE IF type.kind = "union" THEN JoinText(Each(type.types), <<" ", "|", " ">>)
    ELSE IF type.kind = "intersection" THEN JoinText(Each(type.types), <<" ", "&", " ">>)
    ELSE IF type.kind = "function"
    THEN <<"(">>
         \o JoinText([i \in 1..Len(type.params) |->
                         type.params[i].name \o <<":", " ">>
                         \o Visit("typeToString", <<type.params[i].type>>)], <<",", " ">>)
         \o <<")", " ", "=", ">", " ">> \o Visit("typeToString", <<type.returnType>>)
    ELSE IF type.kind \in {"interface", "class", "enum"} THEN type.name
    ELSE <<"u", "n", "k", "n", "o", "w", "n">>


(* node.types.map((t) => this.resolveTypeNode(t)) *)
ResolveTypeNodes(C, nodes, types) ==
    IF nodes = <<>> THEN R(C, types)
    ELSE LET r == Visit("resolveTypeNode", <<C, Head(nodes)>>) IN
         Visit("ResolveTypeNodes", <<r.C, Tail(nodes), Append(types, r.type)>>)

resolveTypeNode(C, node) ==
    IF node.kind = "TypeReference"
    THEN LET typeName == node.typeName IN
         IF typeName = <<"n", "u", "m", "b", "e", "r">> THEN R(C, createNumberType)
         ELSE IF typeName = <<"s", "t", "r", "i", "n", "g">> THEN R(C, createStringType)
         ELSE IF typeName = <<"b", "o", "o", "l", "e", "a", "n">> THEN R(C, createBooleanType)
         ELSE IF typeName = <<"v", "o", "i", "d">> THEN R(C, createVoidType)
         ELSE IF typeName = <<"n", "u", "l", "l">> THEN R(C, createNullType)
         ELSE IF typeName = <<"u", "n", "d", "e", "f", "i", "n", "e", "d">> THEN R(C, createUndefinedType)
         ELSE IF typeName = <<"a", "n", "y">> THEN R(C, createAnyType)
         ELSE IF typeName = <<"u", "n", "k", "n", "o", "w", "n">> THEN R(C, createUnknownType)
         ELSE IF typeName = <<"n", "e", "v", "e", "r">> THEN R(C, createNeverType)
         ELSE IF typeName = <<"o", "b", "j", "e", "c", "t">> THEN R(C, createAnyType)
         ELSE IF typeName = <<"s", "y", "m", "b", "o", "l">> THEN R(C, [kind |-> "symbol"])
         ELSE IF typeName = <<"b", "i", "g", "i", "n", "t">> THEN R(C, [kind |-> "bigint"])
         ELSE IF lookupType(C, typeName) # NoType THEN R(C, lookupType(C, typeName))
         ELSE IF Declared(C, typeName) THEN R(C, lookup(C, typeName).type)
         ELSE R(addError(C, "Cannot find name '${node.typeName}'", <<typeName>>,
                         node.line),
                createAnyType)
    ELSE IF node.kind = "ArrayType"
    THEN LET e == Visit("resolveTypeNode", <<C, node.elementType>>) IN
         R(e.C, createArrayType(e.type))
    ELSE IF node.kind = "UnionType"
    THEN LET ts == Visit("ResolveTypeNodes", <<C, node.types, <<>>>>) IN
         R(ts.C, createUnionType(ts.type))
    ELSE IF node.kind = "IntersectionType"
    THEN LET ts == Visit("ResolveTypeNodes", <<C, node.types, <<>>>>) IN
         R(ts.C, createIntersectionType(ts.type))
    ELSE IF node.kind = "LiteralType"
    THEN R(C, LiteralType(node.typeOf, node.value))
    ELSE R(C, createAnyType)

(* for (const arg of exprs) this.checkExpression(arg) *)
CheckExpressions(C, exprs) ==
    IF C.st # "ok" \/ exprs = <<>> THEN C
    ELSE Visit("CheckExpressions", <<Visit("checkExpression", <<C, Head(exprs)>>).C, Tail(exprs)>>)

(* for (const stmt of statements) this.checkStatement(stmt) *)
CheckStatements(C, statements) ==
    IF C.st # "ok" \/ statements = <<>> THEN C
    ELSE Visit("CheckStatements", <<Visit("checkStatement", <<C, Head(statements)>>), Tail(statements)>>)

checkBlockStatement(C, block) ==
    RestoreEnvironment(Visit("CheckStatements", <<NewEnvironment(C), block.statements>>))

checkBinaryExpression(C, expr) ==
    LET l == Visit("checkExpression", <<C, expr.left>>)
        r == Visit("checkExpression", <<l.C, expr.right>>)
        leftType == l.type
        rightType == r.type
        op == expr.operator
        C1 == IF leftType.kind # "number" /\ leftType.kind # "any"
              THEN addError(r.C, "The left-hand side of an arithmetic operation must be of type 'number'",
                            <<>>, expr.line)
              ELSE r.C
        C2 == IF rightType.kind # "number" /\ rightType.kind # "any"
              THEN addError(C1, "The right-hand side of an arithmetic operation must be of type 'number'",
                            <<>>, expr.line)
              ELSE C1
    IN  IF r.C.st # "ok" THEN r
        ELSE IF op \in {<<"+">>, <<"-">>, <<"*">>, <<"/">>, <<"%">>, <<"*", "*">>}
        THEN IF op = <<"+">> /\ (leftType.kind = "string" \/ rightType.kind = "string")
             THEN R(r.C, createStringType)
             ELSE IF leftType.kind = "number" /\ rightType.kind = "number"
             THEN R(r.C, createNumberType)
             ELSE R(C2, createNumberType)
        ELSE IF op \in {<<"=", "=">>, <<"=", "=", "=">>, <<"!", "=">>, <<"!", "=", "=">>, <<"<">>, <<">">>,
                        <<"<", "=">>, <<">", "=">>}
        THEN R(r.C, createBooleanType)
        ELSE IF op \in {<<"&">>, <<"|">>, <<"^">>, <<"<", "<">>, <<">", ">">>, <<">", ">", ">">>}
        THEN R(r.C, createNumberType)
        ELSE IF op = <<"i", "n", "s", "t", "a", "n", "c", "e", "o", "f">> \/ op = <<"i", "n">> THEN R(r.C, createBooleanType)
        ELSE R(r.C, createAnyType)

checkUnaryExpression(C, expr) ==
    LET o == Visit("checkExpression", <<C, expr.operand>>)
        operandType == o.type
    IN  IF o.C.st # "ok" THEN o
        ELSE IF expr.operator \in {<<"-">>, <<"+">>, <<"~">>}
        THEN R(IF operandType.kind # "number" /\ operandType.kind # "any"
               THEN addError(o.C, "Unary '${expr.operator}' requires a number operand",
                             <<expr.operator>>, expr.line)
               ELSE o.C,
               createNumberType)
        ELSE IF expr.operator = <<"!">> THEN R(o.C, createBooleanType)
        ELSE IF expr.operator = <<"t", "y", "p", "e", "o", "f">> THEN R(o.C, createStringType)
        ELSE IF expr.operator = <<"d", "e", "l", "e", "t", "e">> THEN R(o.C, createBooleanType)
        ELSE R(o.C, createAnyType)

(* The loop over the first checkCount arguments of checkCallExpression     *)
(* (958-973), from argument i.                                             *)
CheckArguments(C, expr, funcType, i, checkCount) ==
    IF C.st # "ok" \/ i > checkCount THEN C
    ELSE LET a == Visit("checkExpression", <<C, expr.arguments[i]>>)
             argType == a.type
             paramType == funcType.params[i].type
         IN  Visit("CheckArguments", <<
                 IF a.C.st = "ok" /\ ~isAssignable(argType, paramType)
                 THEN addError(a.C, "Argument of type '${argType}' is not assignable to parameter of type '${paramType}'",
                               <<Visit("typeToString", <<argType>>), Visit("typeToString", <<paramType>>)>>,
                               expr.line)
                 ELSE a.C,
                 expr, funcType, i + 1, checkCount>>)

(* The argument count test of checkCallExpression (939-954). *)
IsRest(p) == Len(p.name) >= 3 /\ SubSeq(p.name, 1, 3) = <<".", ".", ".">>
hasRestParam(funcType) == \E i \in 1..Len(funcType.params) : IsRest(funcType.params[i])
requiredParams(funcType) ==
    Cardinality({ i \in 1..Len(funcType.params) :
                    ~funcType.params[i].optional /\ ~IsRest(funcType.params[i]) })

(* The argument count test with its `else` dropped and the second test     *)
(* turned from > into !==.                                                 *)
CheckArgumentCount_NoElse(C, expr, funcType) ==
    LET n == Len(expr.arguments)
        C1 == IF n < requiredParams(funcType)
              THEN addError(C, "Expected at least ${requiredParams} arguments, but got ${n}",
                            <<NatText(requiredParams(funcType)), NatText(n)>>, expr.line)
              ELSE C
    IN  IF ~hasRestParam(funcType) /\ n # Len(funcType.params)
        THEN addError(C1, "Expected at most ${params.length} arguments, but got ${n}",
                      <<NatText(Len(funcType.params)), NatText(n)>>, expr.line)
        ELSE C1

CheckArgumentCount(C, expr, funcType) ==
    LET n == Len(expr.arguments) IN
    IF n < requiredParams(funcType)
    THEN addError(C, "Expected at least ${requiredParams} arguments, but got ${n}",
                  <<NatText(requiredParams(funcType)), NatText(n)>>, expr.line)
    ELSE IF ~hasRestParam(funcType) /\ n > Len(funcType.params)
    THEN addError(C, "Expected at most ${params.length} arguments, but got ${n}",
                  <<NatText(Len(funcType.params)), NatText(n)>>, expr.line)
    ELSE C

checkCallExpression(C, expr) ==
    LET c == Visit("checkExpression", <<C, expr.callee>>)
        calleeType == c.type
        funcType == calleeType
        n == Len(expr.arguments)
        Min(a, b) == IF a < b THEN a ELSE b
        checkCount == IF hasRestParam(funcType) THEN Min(n, Len(funcType.params) - 1)
                      ELSE Min(n, Len(funcType.params))
    IN  IF c.C.st # "ok" THEN c
        ELSE IF calleeType.kind = "any"
        THEN R(Visit("CheckExpressions", <<c.C, expr.arguments>>), createAnyType)
        ELSE IF calleeType.kind # "function"
        THEN R(addError(c.C, "This expression is not callable", <<>>, expr.line),
               createAnyType)
        ELSE R(Visit("CheckArguments", <<CheckArgumentCount(c.C, expr, funcType), expr,
                                         funcType, 1, checkCount>>),
               funcType.returnType)

checkMemberExpression(C, expr) ==
    LET o == Visit("checkExpression", <<C, expr.object>>)
        objectType == o.type
    IN  IF o.C.st # "ok" THEN o
        ELSE IF objectType.kind = "any" THEN R(o.C, createAnyType)
        ELSE IF objectType.kind \in {"interface", "class"}
        THEN IF ~MapHas(objectType.members, expr.property)
             THEN R(addError(o.C, "Property '${expr.property}' does not exist on type '${objectType.name}'",
                             <<expr.property, objectType.name>>, expr.line),
                    createAnyType)
             ELSE R(o.C, MapGet(objectType.members, expr.property).type)
        ELSE IF objectType.kind \in {"array", "string"} /\ expr.property = <<"l", "e", "n", "g", "t", "h">>
        THEN R(o.C, createNumberType)
        ELSE R(o.C, createAnyType)

(* expr.parameters.map(...) of checkArrowFunction (1105-1109). *)
ArrowParamTypes(C, parameters, params) ==
    IF parameters = <<>> THEN R(C, params)
    ELSE LET p == Head(parameters)
             t == IF p.typeAnnotation # Undefined
                  THEN Visit("resolveTypeNode", <<C, p.typeAnnotation>>)
                  ELSE R(C, createAnyType)
         IN  Visit("ArrowParamTypes", <<t.C, Tail(parameters),
                 Append(params, [name |-> p.name, type |-> t.type,
                                 optional |-> p.optional])>>)

DefineParams(C, params) ==
    IF params = <<>> THEN C
    ELSE Visit("DefineParams", <<define(C, Head(params).name, Variable(Head(params).type)), Tail(params)>>)

checkArrowFunction(C, expr) ==
    LET ps == Visit("ArrowParamTypes", <<C, expr.parameters, <<>>>>)
        params == ps.type
        C1 == Visit("DefineParams", <<NewEnvironment(ps.C), params>>)
        rt == IF expr.returnType # Undefined THEN Visit("resolveTypeNode", <<C1, expr.returnType>>)
              ELSE IF expr.body.kind = "BlockStatement" THEN R(C1, createVoidType)
              ELSE Visit("checkExpression", <<C1, expr.body>>)
        returnType == rt.type
        previousReturn == rt.C.currentReturnType
        C2 == IF rt.C.st = "ok" /\ expr.body.kind = "BlockStatement"
              THEN LET b == checkBlockStatement(
                                [rt.C EXCEPT !.currentReturnType = returnType],
                                expr.body)
                   IN  IF b.st # "ok" THEN b
                       ELSE [b EXCEPT !.currentReturnType = previousReturn]
              ELSE rt.C
    IN  R(RestoreEnvironment(C2), FunctionType(params, returnType))

(* globalEnv.define and globalEnv.defineType. *)
globalDefine(C, name, entry) ==
    [C EXCEPT !.envs[1] = MapSet(@, [key |-> name] @@ entry)]
defineType(C, name, type) ==
    [C EXCEPT !.types = MapSet(@, [key |-> name, type |-> type])]

(* this.currentEnv = new TypeEnvironment(this.globalEnv) *)
NewGlobalChild(C) == [C EXCEPT !.envs = <<C.envs[1], <<>>>>]
(* this.currentEnv = previousEnv, the chain that checker Before had. *)
RestorePrevious(C, Before) ==
    IF C.st # "ok" THEN C ELSE [C EXCEPT !.envs = <<C.envs[1]>> \o Tail(Before.envs)]

ClassType(name, members, staticMembers) ==
    [kind |-> "class", name |-> name, members |-> members,
     staticMembers |-> staticMembers]
EnumType(name, members) == [kind |-> "enum", name |-> name, members |-> members]

registerFunctionType(C, decl) ==
    LET ps == Visit("ArrowParamTypes", <<C, decl.parameters, <<>>>>)
        rt == IF decl.returnType # Undefined
              THEN Visit("resolveTypeNode", <<ps.C, decl.returnType>>)
              ELSE R(ps.C, createVoidType)
    IN  globalDefine(rt.C, decl.name,
                     [type |-> FunctionType(ps.type, rt.type), kind |-> "function"])

(* A function body checked in an environment whose parent is the one the   *)
(* declaration stands in. *)
checkFunctionDeclaration_Lexical(C, decl) ==
    IF ~Declared(C, decl.name) THEN C
    ELSE IF lookup(C, decl.name).kind # "function" THEN C
    ELSE LET funcType == lookup(C, decl.name).type
             C1 == Visit("DefineParams", <<NewEnvironment(C), funcType.params>>)
             b == checkBlockStatement([C1 EXCEPT !.currentReturnType = funcType.returnType],
                                      decl.body)
         IN  IF b.st # "ok" THEN b
             ELSE RestoreEnvironment([b EXCEPT !.currentReturnType = C.currentReturnType])

checkFunctionDeclaration(C, decl) ==
    IF ~Declared(C, decl.name) THEN C
    ELSE IF lookup(C, decl.name).kind # "function" THEN C
    ELSE LET funcType == lookup(C, decl.name).type
             C1 == Visit("DefineParams", <<NewGlobalChild(C), funcType.params>>)
             b == checkBlockStatement([C1 EXCEPT !.currentReturnType = funcType.returnType],
                                      decl.body)
         IN  IF b.st # "ok" THEN b
             ELSE RestorePrevious([b EXCEPT !.currentReturnType = C.currentReturnType], C)

checkFunctionExpression(C, expr) ==
    LET ps == Visit("ArrowParamTypes", <<C, expr.parameters, <<>>>>)
        params == ps.type
        rt == IF expr.returnType # Undefined
              THEN Visit("resolveTypeNode", <<ps.C, expr.returnType>>)
              ELSE R(ps.C, createVoidType)
        returnType == rt.type
        funcType == FunctionType(params, returnType)
        C0 == NewEnvironment(rt.C)
        C1 == IF expr.name # <<>>
              THEN define(C0, expr.name, [type |-> funcType, kind |-> "function"])
              ELSE C0
        b == checkBlockStatement(
                 [Visit("DefineParams", <<C1, params>>) EXCEPT !.currentReturnType = returnType],
                 expr.body)
    IN  IF b.st # "ok" THEN R(b, funcType)
        ELSE R(RestoreEnvironment([b EXCEPT !.currentReturnType = rt.C.currentReturnType]),
               funcType)

(* The loop over the members of registerInterfaceType (355-362). *)
InterfaceMemberTypes(C, members, map) ==
    IF members = <<>> THEN R(C, map)
    ELSE LET member == Head(members)
             t == Visit("resolveTypeNode", <<C, member.typeAnnotation>>)
         IN  Visit("InterfaceMemberTypes",
                   <<t.C, Tail(members),
                     MapSet(map, [key |-> member.name, type |-> t.type,
                                  optional |-> member.optional,
                                  readonly |-> member.readonly])>>)

registerInterfaceType(C, decl) ==
    LET ms == Visit("InterfaceMemberTypes", <<C, decl.members, <<>>>>)
        interfaceType == InterfaceType(decl.name, ms.type)
    IN  defineType(globalDefine(ms.C, decl.name,
                                [type |-> interfaceType, kind |-> "interface"]),
                   decl.name, interfaceType)

registerTypeAlias(C, decl) ==
    LET t == Visit("resolveTypeNode", <<C, decl.type>>) IN
    defineType(t.C, decl.name, t.type)

(* The members and static members that registerClassType starts from       *)
(* (384-396): those of the superclass when it is registered as a class.    *)
InheritedMembers(C, decl) ==
    LET none == [members |-> <<>>, staticMembers |-> <<>>] IN
    IF decl.superClass = Undefined THEN none
    ELSE IF decl.superClass.kind # "Identifier" THEN none
    ELSE IF ~MapHas(C.envs[1], decl.superClass.name) THEN none
    ELSE LET superEntry == MapGet(C.envs[1], decl.superClass.name) IN
         IF superEntry.type.kind # "class" THEN none
         ELSE [members |-> superEntry.type.members,
               staticMembers |-> superEntry.type.staticMembers]

(* The loop over the members of registerClassType (398-438).  The          *)
(* parameters of a method type have no field optional: it reads as false.  *)
ClassMemberTypes(C, members, maps) ==
    IF members = <<>> THEN R(C, maps)
    ELSE LET member == Head(members)
             propType == IF member.typeAnnotation # Undefined
                         THEN Visit("resolveTypeNode", <<C, member.typeAnnotation>>)
                         ELSE R(C, createAnyType)
             ps == Visit("ArrowParamTypes", <<C, member.parameters, <<>>>>)
             rt == IF member.returnType # Undefined
                   THEN Visit("resolveTypeNode", <<ps.C, member.returnType>>)
                   ELSE R(ps.C, createVoidType)
             methodType ==
                 FunctionType([i \in 1..Len(ps.type) |->
                                  [name |-> ps.type[i].name, type |-> ps.type[i].type,
                                   optional |-> FALSE]],
                              rt.type)
             t == IF member.kind = "PropertyDeclaration" THEN propType
                  ELSE R(rt.C, methodType)
         IN  Visit("ClassMemberTypes",
                   <<t.C, Tail(members),
                     IF member.isStatic
                     THEN [maps EXCEPT !.staticMembers =
                               MapSet(@, [key |-> member.name, type |-> t.type])]
                     ELSE [maps EXCEPT !.members =
                               MapSet(@, [key |-> member.name, type |-> t.type,
                                          accessibility |-> member.accessibility,
                                          static |-> member.isStatic])]>>)

registerClassType(C, decl) ==
    LET ms == Visit("ClassMemberTypes", <<C, decl.members, InheritedMembers(C, decl)>>)
        classType == ClassType(decl.name, ms.type.members, ms.type.staticMembers)
    IN  defineType(globalDefine(ms.C, decl.name, [type |-> classType, kind |-> "class"]),
                   decl.name, classType)

(* The loop over the members of registerEnumType (507-521).  A value of    *)
(* type number is held as the text String() gives for it; a member whose   *)
(* initializer is neither a number nor a string is not set.                *)
RECURSIVE EnumMemberValues(_, _, _)
EnumMemberValues(members, currentValue, map) ==
    IF members = <<>> THEN map
    ELSE LET member == Head(members)
             init == member.initializer
         IN  IF init = Undefined
             THEN EnumMemberValues(Tail(members), currentValue + 1,
                                   MapSet(map, [key |-> member.name,
                                                value |-> NatText(currentValue)]))
             ELSE IF init.kind = "NumericLiteral"
             THEN EnumMemberValues(Tail(members), DigitsValue(init.value) + 1,
                                   MapSet(map, [key |-> member.name, value |-> init.value]))
             ELSE IF init.kind = "StringLiteral"
             THEN EnumMemberValues(Tail(members), currentValue,
                                   MapSet(map, [key |-> member.name, value |-> init.value]))
             ELSE EnumMemberValues(Tail(members), currentValue, map)

(* registerEnumType.  A numeric initializer that is not a whole number     *)
(* written in digits is not modelled.                                      *)
registerEnumType(C, decl) ==
    LET enumType == EnumType(decl.name, EnumMemberValues(decl.members, 0, <<>>)) IN
    IF \E i \in 1..Len(decl.members) :
           /\ decl.members[i].initializer # Undefined
           /\ decl.members[i].initializer.kind = "NumericLiteral"
           /\ ~(Range(decl.members[i].initializer.value) \subseteq Range(DigitChars))
    THEN [C EXCEPT !.st = "unmodelled"]
    ELSE defineType(globalDefine(C, decl.name, [type |-> enumType, kind |-> "enum"]),
                    decl.name, enumType)

checkEnumDeclaration(C, decl) ==
    LET HasInitializer(member) == member.initializer # Undefined
        withInitializer == SelectSeq(decl.members, HasInitializer)
    IN  Visit("CheckExpressions",
              <<C, [i \in 1..Len(withInitializer) |-> withInitializer[i].initializer]>>)

(* The body of a method of checkClassDeclaration (462-481): the parameter  *)
(* and return types are resolved in the environment of the class, the body *)
(* is checked in an environment whose parent it is.                        *)
CheckMethod(C, member) ==
    LET ps == Visit("ArrowParamTypes", <<C, member.parameters, <<>>>>)
        rt == IF member.returnType # Undefined
              THEN Visit("resolveTypeNode", <<ps.C, member.returnType>>)
              ELSE R(ps.C, createVoidType)
        methodEnv == Visit("DefineParams", <<NewEnvironment(rt.C), ps.type>>)
        b == checkBlockStatement([methodEnv EXCEPT !.currentReturnType = rt.type],
                                 member.body)
    IN  IF b.st # "ok" THEN b
        ELSE RestoreEnvironment([b EXCEPT !.currentReturnType = C.currentReturnType])

(* The loop over the members of checkClassDeclaration (461-499); the       *)
(* parser model builds no constructor.                                     *)
CheckClassMembers(C, members) ==
    IF C.st # "ok" \/ members = <<>> THEN C
    ELSE LET member == Head(members) IN
         Visit("CheckClassMembers",
               <<IF member.kind = "MethodDeclaration"
                 THEN IF member.body # Undefined THEN CheckMethod(C, member) ELSE C
                 ELSE IF member.initializer # Undefined
                 THEN Visit("checkExpression", <<C, member.initializer>>).C
                 ELSE C,
                 Tail(members)>>)

checkClassDeclaration(C, decl) ==
    LET classType == lookupType(C, decl.name)
        C0 == NewGlobalChild(C)
        C1 == IF classType # NoType THEN define(C0, <<"t", "h", "i", "s">>, Variable(classType))
              ELSE C0
    IN  RestorePrevious(Visit("CheckClassMembers", <<C1, decl.members>>), C)

(* One of the four collecting passes of check (164-193) over the           *)
(* statements of the program.                                              *)
RegisterDeclarations(C, statements, pass) ==
    IF C.st # "ok" \/ statements = <<>> THEN C
    ELSE LET stmt == Head(statements)
             C1 == CASE pass = 1 /\ stmt.kind = "TypeAliasDeclaration" ->
                          registerTypeAlias(C, stmt)
                     [] pass = 1 /\ stmt.kind = "EnumDeclaration" ->
                          registerEnumType(C, stmt)
                     [] pass = 2 /\ stmt.kind = "InterfaceDeclaration" ->
                          registerInterfaceType(C, stmt)
                     [] pass = 3 /\ stmt.kind = "ClassDeclaration" ->
                          registerClassType(C, stmt)
                     [] pass = 4 /\ stmt.kind = "FunctionDeclaration" ->
                          registerFunctionType(C, stmt)
                     [] OTHER -> C
         IN  Visit("RegisterDeclarations", <<C1, Tail(statements), pass>>)

checkExpression(C, expr) ==
    LET kind == expr.kind IN
    IF C.st # "ok" THEN R(C, createAnyType)
    ELSE IF kind = "NumericLiteral" THEN R(C, createNumberType)
    ELSE IF kind = "StringLiteral" THEN R(C, createStringType)
    ELSE IF kind = "BooleanLiteral" THEN R(C, createBooleanType)
    ELSE IF kind = "NullLiteral" THEN R(C, createNullType)
    ELSE IF kind = "UndefinedLiteral" THEN R(C, createUndefinedType)
    ELSE IF kind = "Identifier"
    THEN IF ~Declared(C, expr.name)
         THEN R(addError(C, "Cannot find name '${expr.name}'", <<expr.name>>, expr.line),
                createAnyType)
         ELSE R(C, lookup(C, expr.name).type)
    ELSE IF kind = "BinaryExpression" THEN checkBinaryExpression(C, expr)
    ELSE IF kind = "UnaryExpression" THEN checkUnaryExpression(C, expr)
    ELSE IF kind = "UpdateExpression"
    THEN LET a == Visit("checkExpression", <<C, expr.argument>>) IN
         R(IF a.C.st = "ok" /\ a.type.kind # "number" /\ a.type.kind # "any"
           THEN addError(a.C, "Update expression requires a number operand", <<>>,
                         expr.line)
           ELSE a.C,
           createNumberType)
    ELSE IF kind = "CallExpression" THEN checkCallExpression(C, expr)
    ELSE IF kind = "MemberExpression" THEN checkMemberExpression(C, expr)
    ELSE IF kind = "ArrowFunction" THEN checkArrowFunction(C, expr)
    ELSE IF kind = "FunctionExpression" THEN checkFunctionExpression(C, expr)
    ELSE IF kind = "ConditionalExpression"
    THEN LET c == Visit("checkExpression", <<C, expr.condition>>)
             consequent == Visit("checkExpression", <<c.C, expr.consequent>>)
             alternate == Visit("checkExpression", <<consequent.C, expr.alternate>>)
         IN  R(alternate.C, createUnionType(<<consequent.type, alternate.type>>))
    ELSE IF kind = "AssignmentExpression"
    THEN LET r == Visit("checkExpression", <<C, expr.right>>)
             l == Visit("checkExpression", <<r.C, expr.left>>)
             rightType == r.type
             leftType == l.type
         IN  R(IF l.C.st = "ok" /\ ~isAssignable(rightType, leftType)
               THEN addError(l.C, "Type '${rightType}' is not assignable to type '${leftType}'",
                             <<Visit("typeToString", <<rightType>>), Visit("typeToString", <<leftType>>)>>,
                             expr.line)
               ELSE l.C,
               rightType)
    ELSE IF kind = "ThisExpression"
    THEN R(C, IF Declared(C, <<"t", "h", "i", "s">>) THEN lookup(C, <<"t", "h", "i", "s">>).type
              ELSE createAnyType)
    ELSE IF kind = "SuperExpression" THEN R(C, createAnyType)
    ELSE IF kind = "AsExpression"
    THEN Visit("resolveTypeNode", <<Visit("checkExpression", <<C, expr.expression>>).C, expr.typeAnnotation>>)
    ELSE IF kind \in {"NonNullExpression", "ParenthesizedExpression"}
    THEN Visit("checkExpression", <<C, expr.expression>>)
    ELSE R(C, createAnyType)

(* A finalType that prefers the type of the initializer. *)
FinalType_Inferred(declaredType, inferredType) ==
    IF inferredType # NoType THEN inferredType
    ELSE IF declaredType # NoType THEN declaredType
    ELSE createAnyType

(* finalType of checkVariableDeclaration (281-297). *)
FinalType(declaredType, inferredType) ==
    IF declaredType # NoType THEN declaredType
    ELSE IF inferredType # NoType THEN inferredType
    ELSE createAnyType

checkVariableDeclaration(C, decl) ==
    LET d == IF decl.typeAnnotation # Undefined
             THEN Visit("resolveTypeNode", <<C, decl.typeAnnotation>>)
             ELSE R(C, NoType)
        i == IF decl.initializer # Undefined
             THEN Visit("checkExpression", <<d.C, decl.initializer>>)
             ELSE R(d.C, NoType)
        declaredType == d.type
        inferredType == i.type
        C1 == IF declaredType # NoType /\ inferredType # NoType
                 /\ ~isAssignable(inferredType, declaredType)
              THEN addError(i.C, "Type '${inferredType}' is not assignable to type '${declaredType}'",
                            <<Visit("typeToString", <<inferredType>>), Visit("typeToString", <<declaredType>>)>>,
                            decl.line)
              ELSE i.C
        finalType == FinalType(declaredType, inferredType)
    IN  IF i.C.st # "ok" THEN i.C
        ELSE IF hasLocal(C1, decl.name)
        THEN addError(C1, "Variable '${decl.name}' is already declared in this scope",
                      <<decl.name>>, decl.line)
        ELSE define(C1, decl.name, [type |-> finalType, kind |-> "variable",
                                     mutable |-> decl.varKind # <<"c", "o", "n", "s", "t">>])

checkReturnStatement(C, stmt) ==
    IF C.currentReturnType = NoType
    THEN addError(C, "Return statement outside of function", <<>>, stmt.line)
    ELSE IF stmt.argument # Undefined
    THEN LET a == Visit("checkExpression", <<C, stmt.argument>>)
             argType == a.type
         IN  IF a.C.st = "ok" /\ ~isAssignable(argType, C.currentReturnType)
             THEN addError(a.C, "Type '${argType}' is not assignable to return type '${currentReturnType}'",
                           <<Visit("typeToString", <<argType>>), Visit("typeToString", <<C.currentReturnType>>)>>,
                           stmt.line)
             ELSE a.C
    ELSE IF C.currentReturnType.kind # "void" /\ C.currentReturnType.kind # "undefined"
    THEN addError(C, "A function whose return type is not 'void' must return a value",
                  <<>>, stmt.line)
    ELSE C

(* The body of a loop: inLoop is set around checkStatement(stmt.body). *)
CheckLoopBody(C, body) ==
    LET wasInLoop == C.inLoop
        b == Visit("checkStatement", <<[C EXCEPT !.inLoop = TRUE], body>>)
    IN  IF C.st # "ok" THEN C
        ELSE IF b.st # "ok" THEN b
        ELSE [b EXCEPT !.inLoop = wasInLoop]

checkForStatement(C, stmt) ==
    LET C0 == NewEnvironment(C)
        C1 == IF stmt.init # Undefined
              THEN IF stmt.init.kind = "VariableDeclaration"
                   THEN checkVariableDeclaration(C0, stmt.init)
                   ELSE Visit("checkExpression", <<C0, stmt.init>>).C
              ELSE C0
        C2 == IF stmt.condition # Undefined
              THEN Visit("checkExpression", <<C1, stmt.condition>>).C
              ELSE C1
        C3 == IF stmt.update # Undefined THEN Visit("checkExpression", <<C2, stmt.update>>).C ELSE C2
    IN  RestoreEnvironment(CheckLoopBody(C3, stmt.body))

checkForOfStatement(C, stmt) ==
    LET i == Visit("checkExpression", <<NewEnvironment(C), stmt.iterable>>)
        iterableType == i.type
        elementType == IF iterableType.kind = "array" THEN iterableType.elementType
                       ELSE createAnyType
        t == IF stmt.variable.typeAnnotation # Undefined
             THEN Visit("resolveTypeNode", <<i.C, stmt.variable.typeAnnotation>>)
             ELSE R(i.C, elementType)
    IN  IF i.C.st # "ok" THEN i.C
        ELSE RestoreEnvironment(
                 CheckLoopBody(define(t.C, stmt.variable.name, Variable(t.type)), stmt.body))

checkForInStatement(C, stmt) ==
    LET o == Visit("checkExpression", <<NewEnvironment(C), stmt.object>>) IN
    IF o.C.st # "ok" THEN o.C
    ELSE RestoreEnvironment(
             CheckLoopBody(define(o.C, stmt.variable.name, Variable(createStringType)),
                           stmt.body))

(* The loop over the cases of checkSwitchStatement (660-667). *)
CheckCases(C, cases) ==
    IF C.st # "ok" \/ cases = <<>> THEN C
    ELSE LET caseClause == Head(cases)
             C1 == IF caseClause.test # Undefined
                   THEN Visit("checkExpression", <<C, caseClause.test>>).C
                   ELSE C
         IN  Visit("CheckCases", <<Visit("CheckStatements", <<C1, caseClause.consequent>>), Tail(cases)>>)

checkStatement(C, stmt) ==
    LET kind == stmt.kind IN
    IF C.st # "ok" THEN C
    ELSE IF kind \in {"null", "undefined"}
    THEN [C EXCEPT !.st = "throw", !.msg = TypeError.msg]
    ELSE IF kind = "VariableDeclaration" THEN checkVariableDeclaration(C, stmt)
    ELSE IF kind = "FunctionDeclaration" THEN checkFunctionDeclaration(C, stmt)
    ELSE IF kind = "ClassDeclaration" THEN checkClassDeclaration(C, stmt)
    ELSE IF kind = "EnumDeclaration" THEN checkEnumDeclaration(C, stmt)
    ELSE IF kind = "ReturnStatement" THEN checkReturnStatement(C, stmt)
    ELSE IF kind = "IfStatement"
    THEN LET C1 == Visit("checkStatement", <<Visit("checkExpression", <<C, stmt.condition>>).C, stmt.consequent>>) IN
         IF stmt.alternate # Undefined THEN Visit("checkStatement", <<C1, stmt.alternate>>) ELSE C1
    ELSE IF kind = "WhileStatement"
    THEN CheckLoopBody(Visit("checkExpression", <<C, stmt.condition>>).C, stmt.body)
    ELSE IF kind = "ForStatement" THEN checkForStatement(C, stmt)
    ELSE IF kind = "ForOfStatement" THEN checkForOfStatement(C, stmt)
    ELSE IF kind = "ForInStatement" THEN checkForInStatement(C, stmt)
    ELSE IF kind = "SwitchStatement"
    THEN Visit("CheckCases", <<Visit("checkExpression", <<C, stmt.discriminant>>).C, stmt.cases>>)
    ELSE IF kind = "ExpressionStatement" THEN Visit("checkExpression", <<C, stmt.expression>>).C
    ELSE IF kind = "BlockStatement" THEN checkBlockStatement(C, stmt)
    ELSE C

(* The methods of the TypeChecker that call one another: Visit(name, args) *)
(* is the call this.name(...args).                                         *)
Visit(name, args) ==
    CASE name = "typeToString" -> typeToString(args[1])
      [] name = "resolveTypeNode" -> resolveTypeNode(args[1], args[2])
      [] name = "ResolveTypeNodes" -> ResolveTypeNodes(args[1], args[2], args[3])
      [] name = "checkExpression" -> checkExpression(args[1], args[2])
      [] name = "checkStatement" -> checkStatement(args[1], args[2])
      [] name = "CheckExpressions" -> CheckExpressions(args[1], args[2])
      [] name = "CheckStatements" -> CheckStatements(args[1], args[2])
      [] name = "CheckArguments" ->
           CheckArguments(args[1], args[2], args[3], args[4], args[5])
      [] name = "ArrowParamTypes" -> ArrowParamTypes(args[1], args[2], args[3])
      [] name = "DefineParams" -> DefineParams(args[1], args[2])
      [] name = "CheckCases" -> CheckCases(args[1], args[2])
      [] name = "InterfaceMemberTypes" -> InterfaceMemberTypes(args[1], args[2], args[3])
      [] name = "ClassMemberTypes" -> ClassMemberTypes(args[1], args[2], args[3])
      [] name = "CheckClassMembers" -> CheckClassMembers(args[1], args[2])
      [] name = "RegisterDeclarations" ->
           RegisterDeclarations(args[1], args[2], args[3])

(* The four collecting passes of check (164-193). *)
CollectDeclarations(C, program) ==
    LET Pass(C0, pass) == Visit("RegisterDeclarations", <<C0, program.statements, pass>>)
    IN  Pass(Pass(Pass(Pass(C, 1), 2), 3), 4)

(* check(program): the collecting passes, then the fifth pass that checks  *)
(* every statement.                                                        *)
checkProgram(program) ==
    Visit("CheckStatements", <<CollectDeclarations(CheckerInit, program), program.statements>>)

(* typeCheck(program): new TypeChecker().check(program). *)
typeCheck(program) == checkProgram(program)
(***************************************************************************)
(* Specification SpecLex: every text over LexAlphabet of at most MaxSrcLen *)
(* characters is built one character at a time and handed to tokenize.     *)
(***************************************************************************)
MaxSrcLen == 4
LexAlphabet == {BACKTICK, "$", "{", "}", "/", "*", "a", "\n"}

InitLex ==
    /\ sourceCode = <<>> /\ fragments = 0
    /\ pc = "build"
    /\ lexOut = None
    /\ options = None /\ parseOut = None /\ checkOut = None /\ emitOut = None
    /\ result = None /\ stages = <<>> /\ reLex = None /\ reParse = None
    /\ srcType = None /\ tgtType = None /\ assignOut = None
    /\ checker = None /\ checked = 0

AppendChar ==
    /\ pc = "build"
    /\ Len(sourceCode) < MaxSrcLen
    /\ \E c \in LexAlphabet : sourceCode' = Append(sourceCode, c)
    /\ UNCHANGED <<pc, lexOut>>
    /\ UNCHANGED runVars /\ UNCHANGED typeVars /\ UNCHANGED checkVars

Tokenize ==
    /\ pc = "build"
    /\ lexOut' = tokenize(sourceCode)
    /\ pc' = "lexed"
    /\ UNCHANGED sourceCode
    /\ UNCHANGED runVars /\ UNCHANGED typeVars /\ UNCHANGED checkVars

NextLex == AppendChar \/ Tokenize

SpecLex == InitLex /\ [][NextLex]_vars

TokenCount(ts, t) == Cardinality({ i \in 1..Len(ts) : ts[i].type = t })

(* C9: tokenize throws on an unterminated template literal, the input that *)
(* ends inside a `${` substitution included: a scan that returned normally *)
(* never left a substitution open at the end of the input.                 *)
C9_UnterminatedTemplateThrows ==
    (pc = "lexed" /\ lexOut.st = "ok") => ~lexOut.openTemplate

(* C10: tokenize throws on a block comment that is never closed: a scan    *)
(* that returned normally never ran off the end of the input inside a      *)
(* comment.                                                                *)
C10_UnterminatedCommentThrows ==
    (pc = "lexed" /\ lexOut.st = "ok") => ~lexOut.openComment

(* C11: the token list tokenize returns holds exactly one end-of-file      *)
(* token, and it is the last element.                                      *)
C11_OneEOFLast ==
    (pc = "lexed" /\ lexOut.st = "ok") =>
        /\ Len(lexOut.tokens) >= 1
        /\ lexOut.tokens[Len(lexOut.tokens)].type = "EOF"
        /\ TokenCount(lexOut.tokens, "EOF") = 1

C11_Witness ==
    /\ pc = "lexed" /\ lexOut.st = "ok"
    /\ Len(lexOut.tokens) >= 4
    /\ lexOut.tokens[Len(lexOut.tokens)].type = "EOF"
(***************************************************************************)
(* Specification SpecAssign: the types the checker builds (resolveTypeNode,*)
(* checkExpression, the register passes) are grown from the leaf types by  *)
(* the type constructors, up to MaxTypeDepth constructors deep, and        *)
(* isAssignable is called on the type and a target.                        *)
(***************************************************************************)
MaxTypeDepth == 2

LeafTypes ==
    { createNumberType, createStringType, createBooleanType, createVoidType,
      createNullType, createUndefinedType, createAnyType, createUnknownType,
      createNeverType, [kind |-> "symbol"], [kind |-> "bigint"],
      LiteralType("string", <<"a">>), LiteralType("number", <<"1">>),
      LiteralType("boolean", <<"t", "r", "u", "e">>),
      [kind |-> "class", name |-> <<"C">>], [kind |-> "enum", name |-> <<"E">>] }

(* The types that the constructors combine with the type under             *)
(* construction.                                                           *)
PartTypes == { createNumberType, createNullType, LiteralType("string", <<"a">>) }

RECURSIVE TypeDepth(_)
TypeDepth(t) ==
    LET Max(S) == IF S = {} THEN 0 ELSE CHOOSE n \in S : \A k \in S : k <= n
        Of(ts) == Max({ TypeDepth(ts[i]) : i \in 1..Len(ts) })
    IN  CASE t.kind = "array" -> 1 + TypeDepth(t.elementType)
          [] t.kind = "tuple" -> 1 + Of(t.elementTypes)
          [] t.kind \in {"union", "intersection"} -> 1 + Of(t.types)
          [] t.kind = "function" ->
                 1 + Max({ TypeDepth(t.returnType) }
                         \cup { TypeDepth(t.params[i].type) : i \in 1..Len(t.params) })
          [] t.kind = "interface" ->
                 1 + Max({ TypeDepth(t.members[i].type) : i \in 1..Len(t.members) })
          [] OTHER -> 0

Param(name, type) == [name |-> name, type |-> type, optional |-> FALSE]
Member(key, type, optional) == [key |-> key, type |-> type, optional |-> optional]

(* The types built from t and a part p by one constructor. *)
Constructed(t, p) ==
    { createArrayType(t),
      TupleType(<<t, p>>), TupleType(<<p, t>>),
      createUnionType(<<t, p>>), createUnionType(<<p, t>>),
      createIntersectionType(<<t, p>>),
      FunctionType(<<Param(<<"x">>, t)>>, p),
      FunctionType(<<Param(<<"x">>, p), Param(<<"y">>, p)>>, t),
      FunctionType(<<>>, t),
      InterfaceType(<<"I">>, <<Member(<<"m">>, t, FALSE)>>),
      InterfaceType(<<"<", "a", "n", "o", "n", "y", "m", "o", "u", "s", ">">>,
                    <<Member(<<"m">>, p, FALSE), Member(<<"n">>, t, TRUE)>>) }

InitAssign ==
    /\ srcType \in LeafTypes
    /\ tgtType = None
    /\ assignOut = None
    /\ checker = None /\ checked = 0
    /\ pc = "types"
    /\ sourceCode = <<>> /\ fragments = 0 /\ lexOut = None
    /\ options = None /\ parseOut = None /\ checkOut = None /\ emitOut = None
    /\ result = None /\ stages = <<>> /\ reLex = None /\ reParse = None

ConstructType ==
    /\ pc = "types"
    /\ TypeDepth(srcType) < MaxTypeDepth
    /\ \E p \in PartTypes : \E t \in Constructed(srcType, p) : srcType' = t
    /\ UNCHANGED <<pc, tgtType, assignOut, sourceCode, lexOut>>
    /\ UNCHANGED runVars /\ UNCHANGED checkVars

(* The unions of two parts or string literals, as a type annotation such   *)
(* as  "a" | "b"  or  number | null  resolves to.                          *)
TargetUnions ==
    LET UnionArms == PartTypes \cup { LiteralType("string", <<"b">>) } IN
    { createUnionType(<<p, q>>) : p \in UnionArms, q \in UnionArms }

(* The interfaces of at most two members m and n, required or optional,    *)
(* whose types are parts: what an interface declaration or an object type  *)
(* annotation resolves to.                                                 *)
TargetInterfaces ==
    LET Ms == { <<Member(<<"m">>, p, o)>> : p \in PartTypes, o \in BOOLEAN }
        Ns == { <<Member(<<"n">>, p, o)>> : p \in PartTypes, o \in BOOLEAN }
    IN  { InterfaceType(<<"T">>, ms) :
              ms \in {<<>>} \cup Ms \cup Ns \cup { a \o b : a \in Ms, b \in Ns } }

(* The target is the type itself, a leaf type, a union with the type, a    *)
(* union of parts or, for an interface, another interface.                 *)
ChooseTarget ==
    /\ pc = "types"
    /\ \E t \in {srcType} \cup PartTypes \cup TargetUnions
                 \cup (IF srcType.kind = "interface" THEN TargetInterfaces ELSE {})
                 \cup { createUnionType(<<p, srcType>>) : p \in PartTypes } :
           tgtType' = t
    /\ pc' = "target"
    /\ UNCHANGED <<srcType, assignOut, sourceCode, lexOut>>
    /\ UNCHANGED runVars /\ UNCHANGED checkVars

Assign ==
    /\ pc = "target"
    /\ assignOut' = isAssignable(srcType, tgtType)
    /\ pc' = "assigned"
    /\ UNCHANGED <<srcType, tgtType, sourceCode, lexOut>>
    /\ UNCHANGED runVars /\ UNCHANGED checkVars

NextAssign == ConstructType \/ ChooseTarget \/ Assign

SpecAssign == InitAssign /\ [][NextAssign]_vars

(* C8: isAssignable is reflexive: for every type T the checker can build,  *)
(* isAssignable(T, T) is true.                                             *)
C8_AssignableReflexive ==
    (pc = "assigned" /\ tgtType = srcType) => assignOut = TRUE

(* C8 witness: isAssignable(T, T) was computed for a function type whose   *)
(* parameter is itself a constructed type.                                 *)
C8_Witness ==
    /\ pc = "assigned"
    /\ tgtType = srcType
    /\ srcType.kind = "function"
    /\ Len(srcType.params) > 0
    /\ srcType.params[1].type.kind = "interface"
    /\ assignOut = TRUE


(* The arms of a union type. *)
Arms(t) == { t.types[i] : i \in 1..Len(t.types) }

(* C18: for a union target T, if some arm A of T has isAssignable(S, A)    *)
(* then isAssignable(S, T) is true, also for S null or undefined and T     *)
(* with an arm of that kind.                                               *)
C18_UnionTargetSomeArm ==
    (/\ pc = "assigned"
     /\ tgtType.kind = "union"
     /\ \E a \in Arms(tgtType) : isAssignable(srcType, a))
        => assignOut = TRUE

(* C19: for a union source S and a target T that is not any or unknown,    *)
(* isAssignable(S, T) is true only if every arm of S is assignable to T,   *)
(* also when T is a union.                                                 *)
C19_UnionSourceEveryArm ==
    (/\ pc = "assigned"
     /\ srcType.kind = "union"
     /\ tgtType.kind \notin {"any", "unknown"}
     /\ assignOut = TRUE)
        => \A a \in Arms(srcType) : isAssignable(a, tgtType)

(* C20: the primitive string is assignable to a union all of whose arms    *)
(* are string-literal types.                                               *)
C20_StringRelaxation ==
    (/\ pc = "assigned"
     /\ srcType.kind = "string"
     /\ tgtType.kind = "union"
     /\ \A a \in Arms(tgtType) : a.kind = "literal" /\ a.typeOf = "string")
        => assignOut = TRUE

(* The members of an interface type. *)
Members(t) == { t.members[i] : i \in 1..Len(t.members) }
HasMember(t, key) == \E m \in Members(t) : m.key = key
MemberOf(t, key) == CHOOSE m \in Members(t) : m.key = key

(* C21 as stated: for interface types S and T, isAssignable(S, T) is true  *)
(* if and only if every required member of T is present in S with a type   *)
(* assignable to the member's type in T; optional members of T and extra   *)
(* members of S do not change the verdict.                                 *)
C21_RequiredMembersOnly ==
    (pc = "assigned" /\ srcType.kind = "interface" /\ tgtType.kind = "interface") =>
        (assignOut = TRUE <=>
            \A tm \in Members(tgtType) :
                ~tm.optional =>
                    /\ HasMember(srcType, tm.key)
                    /\ isAssignable(MemberOf(srcType, tm.key).type, tm.type))

(* C21, amended: for interface types S and T, isAssignable(S, T) is true   *)
(* if and only if every required member of T is present in S and every     *)
(* member of T that is present in S, required or optional, has in S a type *)
(* assignable to its type in T; extra members of S and optional members of *)
(* T that S lacks do not change the verdict.                               *)
C21_PresentMembersAssignable ==
    (pc = "assigned" /\ srcType.kind = "interface" /\ tgtType.kind = "interface") =>
        (assignOut = TRUE <=>
            \A tm \in Members(tgtType) :
                /\ ~tm.optional => HasMember(srcType, tm.key)
                /\ HasMember(srcType, tm.key) =>
                       isAssignable(MemberOf(srcType, tm.key).type, tm.type))

(* An interface with an extra member was assigned to an interface whose    *)
(* only member is optional and present in the source with another type.    *)
C21_Witness ==
    /\ pc = "assigned" /\ srcType.kind = "interface" /\ tgtType.kind = "interface"
    /\ tgtType # srcType
    /\ Len(srcType.members) = 2 /\ Len(tgtType.members) = 1
    /\ tgtType.members[1].optional
    /\ HasMember(srcType, tgtType.members[1].key)
    /\ assignOut = FALSE
(***************************************************************************)
(* Specification SpecPipeline: a source text is put together from at most  *)
(* MaxFragments fragments, each a run of whole tokens, with at most        *)
(* MaxArrows arrow functions, and handed to the exported functions one     *)
(* after the other: tokenize, parse, emit, and then tokenize and parse     *)
(* again on the emitted text.                                              *)
(***************************************************************************)
MaxFragments == 3
MaxArrows == 1

Fragments ==
    { <<"l", "e", "t", " ", "f", " ", "=", " ">>, <<"(", "x", ")", " ", "=", ">", " ">>, <<"(", ")", " ", "=", ">", " ", "{", " ">>, <<"x">>, <<";", " ">>, <<"x", ";", " ">>,
      <<"}", ";", " ">>, <<"}", " ">>, <<"w", "h", "i", "l", "e", " ", "(", "x", ")", " ">>, <<"w", "h", "i", "l", "e", " ", "(", "x", ")", " ", "x", ";", " ">>,
      <<"f", "o", "r", " ", "(", "c", "o", "n", "s", "t", " ", "k", " ", "i", "n", " ", "o", ")", " ">>, <<"f", "o", "r", " ", "(", "c", "o", "n", "s", "t", " ", "k", " ", "i", "n", " ", "o", ")", " ", "x", ";", " ">>, <<"a", " ", "=", "\n">>,
      <<"s", "w", "i", "t", "c", "h", " ", "(", "x", ")", " ", "{", " ">>, <<"c", "a", "s", "e", " ", "1", ":", " ">> }

(* The number of `=>` in a text. *)
Arrows(text) ==
    Cardinality({i \in 1..(Len(text) - 1) : text[i] = "=" /\ text[i + 1] = ">"})

InitPipeline ==
    /\ sourceCode = <<>>
    /\ fragments = 0
    /\ pc = "build"
    /\ lexOut = None
    /\ options = None /\ parseOut = None /\ checkOut = None /\ emitOut = None
    /\ result = None /\ stages = <<>> /\ reLex = None /\ reParse = None
    /\ srcType = None /\ tgtType = None /\ assignOut = None
    /\ checker = None /\ checked = 0

AppendFragment ==
    /\ pc = "build"
    /\ fragments < MaxFragments
    /\ \E f \in Fragments :
          /\ Arrows(sourceCode \o f) <= MaxArrows
          /\ sourceCode' = sourceCode \o f
    /\ fragments' = fragments + 1
    /\ UNCHANGED <<pc, lexOut, options, parseOut, checkOut, emitOut, result, stages,
                   reLex, reParse>>
    /\ UNCHANGED typeVars /\ UNCHANGED checkVars

(* parse(tokens) on the tokens of the source.  A parse that never returns  *)
(* leaves the caller inside the call.                                      *)
ParseTokens ==
    /\ pc = "lexed"
    /\ lexOut.st = "ok"
    /\ parseOut' = parse(lexOut.tokens)
    /\ parseOut'.st # "unmodelled"
    /\ pc' = IF parseOut'.st = "hang" THEN "parsing" ELSE "parsed"
    /\ UNCHANGED <<sourceCode, fragments, lexOut, options, checkOut, emitOut, result,
                   stages, reLex, reParse>>
    /\ UNCHANGED typeVars /\ UNCHANGED checkVars

(* emit(ast) on the program that parse returned. *)
EmitProgram ==
    /\ pc = "parsed"
    /\ parseOut.st = "ok"
    /\ emitOut' = emit(parseOut.node)
    /\ pc' = "emitted"
    /\ UNCHANGED <<sourceCode, fragments, lexOut, options, parseOut, checkOut, result,
                   stages, reLex, reParse>>
    /\ UNCHANGED typeVars /\ UNCHANGED checkVars

(* tokenize on the text that emit returned. *)
TokenizeOutput ==
    /\ pc = "emitted"
    /\ emitOut.st = "ok"
    /\ reLex' = tokenize(emitOut.output)
    /\ pc' = "relexed"
    /\ UNCHANGED <<sourceCode, fragments, lexOut, options, parseOut, checkOut, emitOut,
                   result, stages, reParse>>
    /\ UNCHANGED typeVars /\ UNCHANGED checkVars

(* parse on the tokens of the emitted text. *)
ParseOutput ==
    /\ pc = "relexed"
    /\ reLex.st = "ok"
    /\ reParse' = parse(reLex.tokens)
    /\ reParse'.st # "unmodelled"
    /\ pc' = IF reParse'.st = "hang" THEN "reparsing" ELSE "reparsed"
    /\ UNCHANGED <<sourceCode, fragments, lexOut, options, parseOut, checkOut, emitOut,
                   result, stages, reLex>>
    /\ UNCHANGED typeVars /\ UNCHANGED checkVars

NextPipeline ==
    AppendFragment \/ Tokenize \/ ParseTokens \/ EmitProgram \/ TokenizeOutput
        \/ ParseOutput

SpecPipeline == InitPipeline /\ [][NextPipeline]_vars

(* C3: for every token sequence that ends with an end-of-file token, parse *)
(* terminates, returning a program or throwing: no call of parse stays     *)
(* inside a loop that consumes no token.                                   *)
C3_ParseTerminates ==
    pc \in {"parsing", "parsed"} => parseOut.st \in {"ok", "throw"}


(* C4: round trip: once emit has returned a text for a parsed program,     *)
(* tokenize accepts the text and parse accepts its tokens.                 *)
C4_OutputReparses ==
    /\ pc = "relexed" => reLex.st = "ok"
    /\ pc \in {"reparsing", "reparsed"} => reParse.st = "ok"

(***************************************************************************)
(* Type erasure on syntax trees.  Erase(node) is the tree with the         *)
(* type-only syntax removed (annotations, return types, `as`, non-null     *)
(* `!`), without line numbers, and with the body of a loop or of an `if`   *)
(* written as a block, which is how emitIfStatement and the loop emitters  *)
(* print it.  Empty statements carry nothing and are left out.  A tree is  *)
(* [kind, label, children].                                                *)
(***************************************************************************)
NonEmpty(statements) == SelectSeq(statements, LAMBDA s : s.kind # "EmptyStatement")

Braced(body) ==
    IF body.kind \in {"BlockStatement", "undefined", "null"} THEN body
    ELSE [kind |-> "BlockStatement", statements |-> <<body>>, line |-> 0]

ElseBraced(body) == IF body.kind = "IfStatement" THEN body ELSE Braced(body)

(* The value-carrying text of a node. *)
Label(node) ==
    CASE node.kind = "Identifier" -> node.name
      [] node.kind \in {"NumericLiteral", "StringLiteral", "BooleanLiteral"} -> node.value
      [] node.kind \in {"BinaryExpression", "LogicalExpression",
                        "AssignmentExpression"} -> node.operator
      [] node.kind \in {"UnaryExpression", "UpdateExpression"} ->
           IF node.prefix THEN node.operator \o <<"_">> ELSE <<"_">> \o node.operator
      [] node.kind = "MemberExpression" -> node.property
      [] node.kind = "VariableDeclaration" -> node.varKind \o <<" ">> \o node.name
      [] node.kind = "BreakStatement" -> node.label
      [] node.kind = "Parameter" ->
           (IF node.rest THEN <<".", ".", ".">> ELSE <<>>) \o node.name
      [] OTHER -> <<>>

(* The sub-trees of a node that carry values, in source order. *)
Children(node) ==
    CASE node.kind \in {"Program", "BlockStatement"} -> NonEmpty(node.statements)
      [] node.kind = "VariableDeclaration" -> <<node.initializer>>
      [] node.kind = "ExpressionStatement" -> <<node.expression>>
      [] node.kind = "ParenthesizedExpression" -> <<node.expression>>
      [] node.kind = "ReturnStatement" -> <<node.argument>>
      [] node.kind = "IfStatement" ->
           <<node.condition, Braced(node.consequent), ElseBraced(node.alternate)>>
      [] node.kind = "WhileStatement" -> <<node.condition, Braced(node.body)>>
      [] node.kind = "ForStatement" ->
           <<node.init, node.condition, node.update, Braced(node.body)>>
      [] node.kind = "ForOfStatement" ->
           <<node.variable, node.iterable, Braced(node.body)>>
      [] node.kind = "ForInStatement" ->
           <<node.variable, node.object, Braced(node.body)>>
      [] node.kind = "SwitchStatement" ->
           <<node.discriminant>> \o
           [i \in 1..Len(node.cases) |->
               [kind |-> "SwitchCase", test |-> node.cases[i].test,
                consequent |-> node.cases[i].consequent]]
      [] node.kind = "SwitchCase" -> <<node.test>> \o NonEmpty(node.consequent)
      [] node.kind = "ArrowFunction" ->
           [i \in 1..Len(node.parameters) |->
               [kind |-> "Parameter", name |-> node.parameters[i].name,
                rest |-> node.parameters[i].rest,
                defaultValue |-> node.parameters[i].defaultValue]]
           \o <<node.body>>
      [] node.kind = "Parameter" -> <<node.defaultValue>>
      [] node.kind \in {"BinaryExpression", "LogicalExpression",
                        "AssignmentExpression"} -> <<node.left, node.right>>
      [] node.kind = "ConditionalExpression" ->
           <<node.condition, node.consequent, node.alternate>>
      [] node.kind = "UnaryExpression" -> <<node.operand>>
      [] node.kind = "UpdateExpression" -> <<node.argument>>
      [] node.kind = "CallExpression" -> <<node.callee>> \o node.arguments
      [] node.kind = "MemberExpression" -> <<node.object>>
      [] OTHER -> <<>>

RECURSIVE Erase(_)
Erase(node) ==
    LET Tree(children) ==
            [kind |-> node.kind, label |-> Label(node),
             children |-> [i \in 1..Len(children) |-> Erase(children[i])]]
    IN  IF node.kind \in {"AsExpression", "NonNullExpression"}
        THEN Erase(node.expression)
        ELSE Tree(Children(node))

(* C5: type erasure preserves the value trees: when the emitted text       *)
(* parses, its tree is the tree of the source with the type-only syntax    *)
(* removed; no statement inside an arrow function is dropped or altered.   *)
C5_ErasurePreservesTrees ==
    (pc = "reparsed" /\ reParse.st = "ok") =>
        Erase(reParse.node) = Erase(parseOut.node)

(***************************************************************************)
(* compile(source, options) of compiler.ts.  A result is a record whose    *)
(* optional fields (output, ast, tokens) are present only once assigned.   *)
(* An options value is an object with its three flags, or null.            *)
(***************************************************************************)
OptionValues ==
    { [value |-> "object", skipTypeCheck |-> FALSE, includeAST |-> FALSE,
       includeTokens |-> FALSE],
      [value |-> "object", skipTypeCheck |-> TRUE, includeAST |-> FALSE,
       includeTokens |-> FALSE],
      [value |-> "object", skipTypeCheck |-> FALSE, includeAST |-> TRUE,
       includeTokens |-> TRUE],
      [value |-> "null", skipTypeCheck |-> FALSE, includeAST |-> FALSE,
       includeTokens |-> FALSE] }

(* result.<name> = value *)
SetField(res, name, value) ==
    [f \in DOMAIN res \cup {name} |-> IF f = name THEN value ELSE res[f]]

(* A catch clause that reports nothing. *)
Catch_NoPush(res, message) == res

(* The catch clause: the thrown Error is reported at line 1. *)
Catch(res, message) ==
    [res EXCEPT !.errors = Append(@, [message |-> Msg(message, <<>>), line |-> 1])]

(* A driver that never sees a diagnostic. *)
CheckFailed_Never(typeErrors) == FALSE

(* typeErrors.length > 0 *)
CheckFailed(typeErrors) == Len(typeErrors) > 0

(* Whether compile calls parse, typeCheck and emit, given what the stages  *)
(* before returned: reading a flag of a null options value throws.         *)
RunsParser(opts, lex) == lex.st = "ok" /\ opts.value # "null"
RunsChecker(opts, prs) == prs.st = "ok" /\ ~opts.skipTypeCheck
RunsEmitter(opts, prs, chk) ==
    /\ prs.st = "ok"
    /\ opts.skipTypeCheck \/ (chk.st = "ok" /\ ~CheckFailed(chk.errors))

(* The result compile returns, from what the stages it ran returned. *)
CompileResult(opts, lex, prs, chk, emt) ==
    LET r0 == [success |-> FALSE, errors |-> <<>>]
        Emitted(r) ==
            IF emt.st = "throw" THEN Catch(r, emt.msg)
            ELSE [SetField(r, "output", emt.output) EXCEPT !.success = TRUE]
        Checked(r) ==
            IF opts.skipTypeCheck THEN Emitted(r)
            ELSE IF chk.st = "throw" THEN Catch(r, chk.msg)
            ELSE IF CheckFailed(chk.errors) THEN [r EXCEPT !.errors = chk.errors]
            ELSE Emitted(r)
        Parsed(r) ==
            IF prs.st = "throw" THEN Catch(r, prs.msg)
            ELSE Checked(IF opts.includeAST THEN SetField(r, "ast", prs.node) ELSE r)
        Lexed(r) ==
            IF opts.value = "null"
            THEN Catch(r, "Cannot read properties of null (reading 'includeTokens')")
            ELSE Parsed(IF opts.includeTokens THEN SetField(r, "tokens", lex.tokens) ELSE r)
    IN  IF lex.st = "throw" THEN Catch(r0, lex.msg) ELSE Lexed(r0)

(* The stages compile called, in the order of the calls. *)
StagesRun(opts, lex, prs, chk) ==
    <<"lexer">>
    \o (IF RunsParser(opts, lex) THEN <<"parser">> ELSE <<>>)
    \o (IF RunsParser(opts, lex) /\ RunsChecker(opts, prs) THEN <<"checker">> ELSE <<>>)
    \o (IF RunsParser(opts, lex) /\ RunsEmitter(opts, prs, chk) THEN <<"emitter">> ELSE <<>>)

(* One call compile(sourceCode, options).  A parse that never returns      *)
(* leaves the call unfinished and without a result.                        *)
Compile ==
    /\ pc = "build"
    /\ \E o \in OptionValues : options' = o
    /\ lexOut' = tokenize(sourceCode)
    /\ parseOut' = IF RunsParser(options', lexOut') THEN parse(lexOut'.tokens) ELSE None
    /\ parseOut'.st # "unmodelled"
    /\ checkOut' = IF RunsChecker(options', parseOut')
                   THEN typeCheck(parseOut'.node) ELSE None
    /\ emitOut' = IF RunsEmitter(options', parseOut', checkOut')
                  THEN emit(parseOut'.node) ELSE None
    /\ stages' = StagesRun(options', lexOut', parseOut', checkOut')
    /\ result' = IF parseOut'.st = "hang" THEN None
                 ELSE CompileResult(options', lexOut', parseOut', checkOut', emitOut')
    /\ pc' = IF parseOut'.st = "hang" THEN "compiling" ELSE "returned"
    /\ UNCHANGED <<sourceCode, fragments, reLex, reParse>>
    /\ UNCHANGED typeVars /\ UNCHANGED checkVars

NextCompile == AppendFragment \/ Compile

SpecCompile == InitPipeline /\ [][NextCompile]_vars

(* C1: a call of compile that returns, returns a result of one of two      *)
(* shapes: success with an output and no errors, or failure with errors    *)
(* and no output; no exception leaves the call.                            *)
C1_ResultShape ==
    pc = "returned" =>
        \/ result.success /\ "output" \in DOMAIN result /\ result.errors = <<>>
        \/ ~result.success /\ "output" \notin DOMAIN result /\ result.errors # <<>>

C1_Witness ==
    /\ pc = "returned" /\ ~result.success /\ options.value = "null"
    /\ Len(result.errors) = 1 /\ stages = <<"lexer">>

(* C2: with skipTypeCheck set, compile succeeds with an output on every    *)
(* source that the lexer and the parser accept.                            *)
C2_SkipTypeCheckSucceeds ==
    (pc = "returned" /\ options.skipTypeCheck /\ parseOut.st = "ok") =>
        result.success /\ "output" \in DOMAIN result

(* C6: when the checker ran and returned diagnostics the emitter is not    *)
(* run and the result is the failure carrying exactly those diagnostics;   *)
(* the stages run in the order lexer, parser, checker, emitter, and the    *)
(* checker is not run when skipTypeCheck is set.                           *)
IsPrefix(s, t) == Len(s) <= Len(t) /\ SubSeq(t, 1, Len(s)) = s

C6_CheckerShortCircuit ==
    pc \in {"returned", "compiling"} =>
        /\ (checkOut.st = "ok" /\ checkOut.errors # <<>>) =>
              /\ emitOut.st = "none"
              /\ "emitter" \notin {stages[i] : i \in DOMAIN stages}
              /\ ~result.success
              /\ "output" \notin DOMAIN result
              /\ result.errors = checkOut.errors
        /\ IF options.skipTypeCheck
           THEN IsPrefix(stages, <<"lexer", "parser", "emitter">>) /\ checkOut.st = "none"
           ELSE IsPrefix(stages, <<"lexer", "parser", "checker", "emitter">>)

C6_Witness ==
    /\ pc = "returned"
    /\ ~options.skipTypeCheck
    /\ checkOut.st = "ok" /\ Len(checkOut.errors) >= 2
    /\ stages = <<"lexer", "parser", "checker">>
    /\ result.errors = checkOut.errors

(* C7: the diagnostics the checker returns are in non-decreasing line      *)
(* order.                                                                  *)
C7_DiagnosticsInLineOrder ==
    (pc = "returned" /\ checkOut.st = "ok") =>
        \A i, j \in DOMAIN checkOut.errors :
            i < j => checkOut.errors[i].line <= checkOut.errors[j].line

(***************************************************************************)
(* Specification SpecCheck: a program is put together from at most         *)
(* MaxStatements whole statements, tokenized and parsed, and given to      *)
(* typeCheck.  The program holds none of the declarations that the first   *)
(* four passes of TypeChecker.check collect, so check is the constructor   *)
(* followed by the fifth pass, one checkStatement per statement.           *)
(***************************************************************************)
MaxStatements == 3

CheckFragments ==
    { <<"l", "e", "t", " ", "x", " ", "=", " ", "1", ";", " ">>, <<"l", "e", "t", " ", "x", ":", " ", "n", "u", "m", "b", "e", "r", " ", "=", " ", "\"", "a", "\"", ";", " ">>, <<"c", "o", "n", "s", "t", " ", "x", ":", " ", "s", "t", "r", "i", "n", "g", " ", "=", " ", "\"", "a", "\"", ";", " ">>,
      <<"{", " ", "c", "o", "n", "s", "t", " ", "x", " ", "=", " ", "\"", "a", "\"", ";", " ", "l", "e", "t", " ", "y", ":", " ", "n", "u", "m", "b", "e", "r", " ", "=", " ", "x", ";", " ", "}", " ">>, <<"l", "e", "t", " ", "y", ":", " ", "s", "t", "r", "i", "n", "g", " ", "=", " ", "x", ";", " ">>,
      <<"c", "o", "n", "s", "t", " ", "f", " ", "=", " ", "(", "a", ":", " ", "n", "u", "m", "b", "e", "r", ",", " ", "b", "?", ":", " ", "n", "u", "m", "b", "e", "r", ")", " ", "=", ">", " ", "a", ";", " ">>, <<"c", "o", "n", "s", "t", " ", "g", " ", "=", " ", "(", "a", ",", " ", ".", ".", ".", "r", ")", " ", "=", ">", " ", "a", ";", " ">>,
      <<"l", "e", "t", " ", "z", ":", " ", "s", "t", "r", "i", "n", "g", " ", "=", " ", "f", "(", "\"", "a", "\"", ")", ";", " ">>,
      <<"f", "(", ")", ";", " ">>, <<"f", "(", "1", ")", ";", " ">>, <<"f", "(", "1", ",", " ", "2", ",", " ", "3", ")", ";", " ">>, <<"g", "(", "1", ",", " ", "2", ",", " ", "3", ")", ";", " ">>,
      <<"c", "o", "n", "s", "o", "l", "e", ".", "l", "o", "g", "(", ")", ";", " ">>, <<"c", "o", "n", "s", "o", "l", "e", ".", "l", "o", "g", "(", "1", ",", " ", "2", ")", ";", " ">> }

AppendStatement ==
    /\ pc = "build"
    /\ fragments < MaxStatements
    /\ \E f \in CheckFragments : sourceCode' = sourceCode \o f
    /\ fragments' = fragments + 1
    /\ UNCHANGED <<pc, lexOut, options, parseOut, checkOut, emitOut, result, stages,
                   reLex, reParse>>
    /\ UNCHANGED typeVars /\ UNCHANGED checkVars

(* parse(tokenize(source)). *)
ParseSource ==
    /\ pc = "build"
    /\ lexOut' = tokenize(sourceCode)
    /\ parseOut' = IF lexOut'.st = "ok" THEN parse(lexOut'.tokens) ELSE None
    /\ parseOut'.st # "unmodelled"
    /\ pc' = "parsed"
    /\ UNCHANGED <<sourceCode, fragments, options, checkOut, emitOut, result, stages,
                   reLex, reParse>>
    /\ UNCHANGED typeVars /\ UNCHANGED checkVars

(* typeCheck(program): new TypeChecker() and the four collecting passes of *)
(* check, up to the fifth pass.                                            *)
NewTypeChecker ==
    /\ pc = "parsed"
    /\ parseOut.st = "ok"
    /\ checker' = CollectDeclarations(CheckerInit, parseOut.node)
    /\ checker'.st # "unmodelled"
    /\ checked' = 0
    /\ pc' = "checking"
    /\ UNCHANGED <<sourceCode, fragments, lexOut, options, parseOut, checkOut, emitOut,
                   result, stages, reLex, reParse>>
    /\ UNCHANGED typeVars

(* The statement that the fifth pass checks next. *)
NextStatement == parseOut.node.statements[checked + 1]

(* One iteration of the fifth pass: this.checkStatement(stmt). *)
CheckStatement ==
    /\ pc = "checking"
    /\ checker.st = "ok"
    /\ checked < Len(parseOut.node.statements)
    /\ checker' = Visit("checkStatement", <<checker, NextStatement>>)
    /\ checked' = checked + 1
    /\ UNCHANGED <<sourceCode, fragments, pc, lexOut, options, parseOut, checkOut,
                   emitOut, result, stages, reLex, reParse>>
    /\ UNCHANGED typeVars

(* return this.errors *)
ReturnErrors ==
    /\ pc = "checking"
    /\ checker.st # "ok" \/ checked = Len(parseOut.node.statements)
    /\ checkOut' = checker
    /\ pc' = "checked"
    /\ UNCHANGED <<sourceCode, fragments, lexOut, options, parseOut, emitOut, result,
                   stages, reLex, reParse>>
    /\ UNCHANGED typeVars /\ UNCHANGED checkVars

NextCheck ==
    AppendStatement \/ ParseSource \/ NewTypeChecker \/ CheckStatement \/ ReturnErrors

SpecCheck == InitPipeline /\ [][NextCheck]_vars

(* The fifth pass taken statement by statement returns what typeCheck      *)
(* returns.                                                                *)
CheckedIsTypeCheck == pc = "checked" => checkOut = typeCheck(parseOut.node)

(* The number of diagnostics of a checker whose message is the template    *)
(* text.                                                                   *)
Diagnostics(C, text) ==
    Cardinality({ i \in 1..Len(C.errors) : C.errors[i].message.text = text })
(* The number of them that the step under way adds. *)
Added(text) == Diagnostics(checker', text) - Diagnostics(checker, text)

AlreadyDeclared == "Variable '${decl.name}' is already declared in this scope"
TypeNotAssignable == "Type '${inferredType}' is not assignable to type '${declaredType}'"
ArgumentNotAssignable == "Argument of type '${argType}' is not assignable to parameter of type '${paramType}'"
AtLeast == "Expected at least ${requiredParams} arguments, but got ${n}"
AtMost == "Expected at most ${params.length} arguments, but got ${n}"

(* A step of the fifth pass. *)
CheckStep == pc = "checking" /\ checked' = checked + 1
(* The name is bound in the innermost environment of the checker. *)
BoundInCurrent(C, name) == \E i \in 1..Len(C.envs[Len(C.envs)]) : C.envs[Len(C.envs)][i].key = name
(* The declarations of a block that declare a name again that the          *)
(* enclosing environment binds.                                            *)
NestedRedeclarations(block) ==
    { i \in 1..Len(block.statements) :
        /\ block.statements[i].kind = "VariableDeclaration"
        /\ BoundInCurrent(checker, block.statements[i].name)
        /\ \A j \in 1..Len(block.statements) :
               (j # i /\ block.statements[j].kind = "VariableDeclaration")
                   => block.statements[j].name # block.statements[i].name }

(* C13: a declaration of a name that the innermost environment already     *)
(* binds adds exactly one 'already declared' diagnostic and leaves the     *)
(* binding (type, mutability) as it was; a declaration of the name in a    *)
(* nested environment adds no such diagnostic, binds the name in the       *)
(* nested environment and leaves the enclosing one as it was.              *)
C13_Redeclaration ==
    [][CheckStep =>
        /\ (/\ NextStatement.kind = "VariableDeclaration"
            /\ BoundInCurrent(checker, NextStatement.name))
               => /\ Added(AlreadyDeclared) = 1
                  /\ checker'.envs = checker.envs
        /\ (/\ NextStatement.kind = "BlockStatement"
            /\ NestedRedeclarations(NextStatement) # {})
               => /\ Added(AlreadyDeclared) = 0
                  /\ checker'.envs = checker.envs
                  /\ \A i \in NestedRedeclarations(NextStatement) :
                         LET decl == NextStatement.statements[i]
                             inner == checkVariableDeclaration(NewEnvironment(checker), decl)
                         IN  /\ BoundInCurrent(inner, decl.name)
                             /\ lookup(inner, decl.name).mutable = (decl.varKind # <<"c", "o", "n", "s", "t">>)
                             /\ SubSeq(inner.envs, 1, Len(checker.envs)) = checker.envs
      ]_vars

(* C13 witness: `let x` was declared, a block declared x again, and then   *)
(* a `const x` of another type was checked: one diagnostic, and x is still *)
(* the mutable number.                                                     *)
C13_Witness ==
    /\ pc = "checking" /\ checked = 3
    /\ parseOut.node.statements[1].kind = "VariableDeclaration"
    /\ parseOut.node.statements[1].varKind = <<"l", "e", "t">>
    /\ parseOut.node.statements[2].kind = "BlockStatement"
    /\ parseOut.node.statements[3].kind = "VariableDeclaration"
    /\ parseOut.node.statements[3].varKind = <<"c", "o", "n", "s", "t">>
    /\ parseOut.node.statements[3].name = parseOut.node.statements[1].name
    /\ Diagnostics(checker, AlreadyDeclared) = 1
    /\ lookup(checker, <<"x">>).mutable = TRUE
    /\ lookup(checker, <<"x">>).type = createNumberType

(* The function type of the callee of a call, and the counts of the        *)
(* argument count rule.                                                    *)
CalleeType(call) == Visit("checkExpression", <<checker, call.callee>>).type
RestParams(funcType) ==
    { i \in 1..Len(funcType.params) :
        LET name == funcType.params[i].name IN
        Len(name) >= 3 /\ name[1] = "." /\ name[2] = "." /\ name[3] = "." }
Required(funcType) ==
    Cardinality({ i \in 1..Len(funcType.params) : ~funcType.params[i].optional }
                    \ RestParams(funcType))
(* The step under way adds a diagnostic with the text and the arguments. *)
AddsDiagnostic(text, args) ==
    \E i \in (Len(checker.errors) + 1)..Len(checker'.errors) :
        checker'.errors[i].message = Msg(text, args)

(* C14: a call with k arguments to a function type with n parameters,      *)
(* `required` of them neither optional nor rest, adds exactly one          *)
(* 'Expected at least <required> arguments, but got <k>' when k is less    *)
(* than required, exactly one 'Expected at most <n> arguments, but got     *)
(* <k>' when there is no rest parameter and k is more than n, no such      *)
(* diagnostic otherwise, and never both.                                   *)
C14_CallArity ==
    [][(/\ CheckStep
        /\ NextStatement.kind = "ExpressionStatement"
        /\ NextStatement.expression.kind = "CallExpression"
        /\ CalleeType(NextStatement.expression).kind = "function")
        => LET funcType == CalleeType(NextStatement.expression)
               k == Len(NextStatement.expression.arguments)
               n == Len(funcType.params)
               required == Required(funcType)
           IN  /\ Added(AtLeast) = IF k < required THEN 1 ELSE 0
               /\ Added(AtMost) = IF RestParams(funcType) = {} /\ k > n THEN 1 ELSE 0
               /\ Added(AtLeast) + Added(AtMost) <= 1
               /\ Added(AtLeast) = 1 => AddsDiagnostic(AtLeast, <<NatText(required), NatText(k)>>)
               /\ Added(AtMost) = 1 => AddsDiagnostic(AtMost, <<NatText(n), NatText(k)>>)
      ]_vars

(* C14 witness: f with two parameters, one of them optional, was called    *)
(* with no argument and then with three.                                   *)
C14_Witness ==
    /\ pc = "checking" /\ checked = 3
    /\ parseOut.node.statements[2].kind = "ExpressionStatement"
    /\ parseOut.node.statements[2].expression.kind = "CallExpression"
    /\ Len(parseOut.node.statements[2].expression.arguments) = 0
    /\ parseOut.node.statements[3].kind = "ExpressionStatement"
    /\ parseOut.node.statements[3].expression.kind = "CallExpression"
    /\ Len(parseOut.node.statements[3].expression.arguments) = 3
    /\ Len(checker.errors) = 2
    /\ checker.errors[1].message = Msg(AtLeast, <<<<"1">>, <<"0">>>>)
    /\ checker.errors[2].message = Msg(AtMost, <<<<"2">>, <<"3">>>>)

(* The diagnostics whose message contains `not assignable`. *)
NotAssignableTexts ==
    { TypeNotAssignable, ArgumentNotAssignable,
      "Type '${rightType}' is not assignable to type '${leftType}'",
      "Type '${argType}' is not assignable to return type '${currentReturnType}'" }
AddedNotAssignable ==
    Cardinality({ i \in (Len(checker.errors) + 1)..Len(checker'.errors) :
                    checker'.errors[i].message.text \in NotAssignableTexts })
(* The declaration has an annotation and an initializer whose type is not  *)
(* assignable to it.                                                       *)
Mismatched(decl) ==
    /\ decl.kind = "VariableDeclaration"
    /\ decl.typeAnnotation # Undefined
    /\ decl.initializer # Undefined
    /\ ~isAssignable(Visit("checkExpression", <<checker, decl.initializer>>).type,
                     Visit("resolveTypeNode", <<checker, decl.typeAnnotation>>).type)
AnnotatedType(decl) == Visit("resolveTypeNode", <<checker, decl.typeAnnotation>>).type

(* C15 as stated: a declaration with an annotation and an initializer of a *)
(* type not assignable to it adds exactly one diagnostic that contains     *)
(* 'not assignable', and the name is bound with the annotated type.        *)
C15_MismatchOneDiagnostic ==
    [][(CheckStep /\ Mismatched(NextStatement))
        => /\ AddedNotAssignable = 1
           /\ lookup(checker', NextStatement.name).type = AnnotatedType(NextStatement)
      ]_vars

(* The diagnostics containing 'not assignable' that checking the           *)
(* initializer of the declaration adds by itself.                          *)
InitializerNotAssignable(decl) ==
    LET C == Visit("checkExpression", <<checker, decl.initializer>>).C IN
    Cardinality({ i \in (Len(checker.errors) + 1)..Len(C.errors) :
                    C.errors[i].message.text \in NotAssignableTexts })

(* C15, amended: a declaration with an annotation and an initializer of a  *)
(* type not assignable to it adds exactly one diagnostic 'Type <I> is not  *)
(* assignable to type <A>' of its own, besides what checking the           *)
(* initializer adds; a name that the current environment does not bind yet *)
(* is bound with the annotated type, and a name that it binds keeps its    *)
(* binding.                                                                *)
C15_MismatchOwnDiagnostic ==
    [][(CheckStep /\ Mismatched(NextStatement))
        => LET decl == NextStatement
               inferredType == Visit("checkExpression", <<checker, decl.initializer>>).type
           IN  /\ Added(TypeNotAssignable) = 1
               /\ AddedNotAssignable = 1 + InitializerNotAssignable(decl)
               /\ checker'.errors[Len(checker'.errors) - (IF BoundInCurrent(checker, decl.name) THEN 1 ELSE 0)].message
                      = Msg(TypeNotAssignable,
                            <<Visit("typeToString", <<inferredType>>),
                              Visit("typeToString", <<AnnotatedType(decl)>>)>>)
               /\ IF BoundInCurrent(checker, decl.name)
                  THEN checker'.envs = checker.envs
                  ELSE /\ BoundInCurrent(checker', decl.name)
                       /\ lookup(checker', decl.name).type = AnnotatedType(decl)
      ]_vars

(* C15 witness: `let x: number = "a"` was checked and then a declaration   *)
(* that reads x into a string: x is seen as a number.                      *)
C15_Witness ==
    /\ pc = "checking" /\ checked = 2
    /\ Len(checker.errors) = 2
    /\ checker.errors[1].message = Msg(TypeNotAssignable, <<<<"s", "t", "r", "i", "n", "g">>, <<"n", "u", "m", "b", "e", "r">>>>)
    /\ checker.errors[2].message = Msg(TypeNotAssignable, <<<<"n", "u", "m", "b", "e", "r">>, <<"s", "t", "r", "i", "n", "g">>>>)
    /\ lookup(checker, <<"x">>).type = createNumberType
    /\ lookup(checker, <<"y">>).type = createStringType

(***************************************************************************)
(* Specification SpecEnum: the source is one enum declaration, put         *)
(* together from a head, at most MaxMembers members and the closing brace, *)
(* and is tokenized, parsed and emitted.                                   *)
(***************************************************************************)
MaxMembers == 4

EnumHeads ==
    { <<"e", "n", "u", "m", " ", "N", " ", "{", " ">>, <<"c", "o", "n", "s", "t", " ", "e", "n", "u", "m", " ", "N", " ", "{", " ">>, <<"e", "x", "p", "o", "r", "t", " ", "e", "n", "u", "m", " ", "N", " ", "{", " ">>,
      <<"e", "x", "p", "o", "r", "t", " ", "c", "o", "n", "s", "t", " ", "e", "n", "u", "m", " ", "N", " ", "{", " ">> }
EnumMemberTexts == { <<"A", ",", " ">>, <<"B", " ", "=", " ", "2", ",", " ">>, <<"C", " ", "=", " ", "\"", "s", "\"", ",", " ">>, <<"D", " ", "=", " ", "0", ",", " ">> }

BeginEnum ==
    /\ pc = "build"
    /\ sourceCode = <<>>
    /\ \E h \in EnumHeads : sourceCode' = h
    /\ pc' = "members"
    /\ UNCHANGED <<fragments, lexOut, options, parseOut, checkOut, emitOut, result, stages,
                   reLex, reParse>>
    /\ UNCHANGED typeVars /\ UNCHANGED checkVars

AppendMember ==
    /\ pc = "members"
    /\ fragments < MaxMembers
    /\ \E m \in EnumMemberTexts : sourceCode' = sourceCode \o m
    /\ fragments' = fragments + 1
    /\ UNCHANGED <<pc, lexOut, options, parseOut, checkOut, emitOut, result, stages,
                   reLex, reParse>>
    /\ UNCHANGED typeVars /\ UNCHANGED checkVars

EndEnum ==
    /\ pc = "members"
    /\ sourceCode' = sourceCode \o <<"}", " ">>
    /\ pc' = "build"
    /\ UNCHANGED <<fragments, lexOut, options, parseOut, checkOut, emitOut, result, stages,
                   reLex, reParse>>
    /\ UNCHANGED typeVars /\ UNCHANGED checkVars

NextEnum == BeginEnum \/ AppendMember \/ EndEnum \/ ParseSource \/ EmitProgram

SpecEnum == InitPipeline /\ [][NextEnum]_vars

(* The lines of a text, each without its indentation and its line end. *)
RECURSIVE Lines(_)
Lines(text) ==
    IF text = <<>> THEN <<>>
    ELSE LET end == CHOOSE i \in 1..(Len(text) + 1) :
                        /\ i = Len(text) + 1 \/ text[i] = "\n"
                        /\ \A j \in 1..(i - 1) : text[j] # "\n"
             start == CHOOSE i \in 1..end :
                          /\ i = end \/ text[i] # " "
                          /\ \A j \in 1..(i - 1) : text[j] = " "
         IN  <<SubSeq(text, start, end - 1)>>
                 \o Lines(SubSeq(text, end + 1, Len(text)))

(* The enum declaration of the program: the statement itself, or the       *)
(* declaration that `export` stands before.                                *)
EnumOf(program) ==
    IF program.statements[1].kind = "ExportDeclaration"
    THEN program.statements[1].declaration
    ELSE program.statements[1]

(* The value that the lowering rule gives member i when it has no          *)
(* string initializer: its numeric initializer, or one more than the last  *)
(* numeric value before it, 0 when there is none.                          *)
RECURSIVE MemberValue(_, _)
MemberValue(members, i) ==
    LET init == members[i].initializer
        before == { j \in 1..(i - 1) : members[j].initializer = Undefined
                                         \/ members[j].initializer.kind = "NumericLiteral" }
    IN  IF init # Undefined THEN DigitsValue(init.value)
        ELSE IF before = {} THEN 0
        ELSE MemberValue(members, CHOOSE j \in before : \A k \in before : k <= j) + 1

(* The statement that the lowering rule gives member i of enum N. *)
MemberStatement(N, members, i) ==
    LET m == members[i].name IN
    IF members[i].initializer # Undefined /\ members[i].initializer.kind = "StringLiteral"
    THEN N \o <<"[", "\"">> \o m \o <<"\"", "]", " ", "=", " ", "\"">> \o members[i].initializer.value \o <<"\"", ";">>
    ELSE N \o <<"[">> \o N \o <<"[", "\"">> \o m \o <<"\"", "]", " ", "=", " ">>
           \o NatText(MemberValue(members, i)) \o <<"]", " ", "=", " ", "\"">> \o m \o <<"\"", ";">>

(* C12: the members of a regular enum are emitted in declaration order,    *)
(* a member without initializer two-way with one more than the last        *)
(* numeric value (0 when there is none), a numeric-literal member two-way  *)
(* with its value, a string-literal member one-way, with the counter left  *)
(* as it was.                                                              *)
C12_EnumLowering ==
    (/\ pc = "emitted"
     /\ Len(parseOut.node.statements) = 1
     /\ EnumOf(parseOut.node).kind = "EnumDeclaration"
     /\ ~EnumOf(parseOut.node).isConst)
        => LET decl == EnumOf(parseOut.node)
               lines == Lines(emitOut.output)
           IN  /\ emitOut.st = "ok"
               /\ Len(lines) = Len(decl.members) + 3
               /\ \A i \in 1..Len(decl.members) :
                      lines[i + 2] = MemberStatement(decl.name, decl.members, i)

(* C12 witness: B = 2, C = "s", A, A  was emitted; the members without     *)
(* initializer get 3 and 4.                                                *)
C12_Witness ==
    /\ pc = "emitted" /\ emitOut.st = "ok"
    /\ sourceCode = <<"e", "n", "u", "m", " ", "N", " ", "{", " ", "B", " ", "=", " ", "2", ",", " ", "C", " ", "=", " ", "\"", "s", "\"", ",", " ", "A", ",", " ", "A", ",", " ", "}", " ">>
    /\ Lines(emitOut.output)[3] = <<"N", "[", "N", "[", "\"", "B", "\"", "]", " ", "=", " ", "2", "]", " ", "=", " ", "\"", "B", "\"", ";">>
    /\ Lines(emitOut.output)[4] = <<"N", "[", "\"", "C", "\"", "]", " ", "=", " ", "\"", "s", "\"", ";">>
    /\ Lines(emitOut.output)[5] = <<"N", "[", "N", "[", "\"", "A", "\"", "]", " ", "=", " ", "3", "]", " ", "=", " ", "\"", "A", "\"", ";">>
    /\ Lines(emitOut.output)[6] = <<"N", "[", "N", "[", "\"", "A", "\"", "]", " ", "=", " ", "4", "]", " ", "=", " ", "\"", "A", "\"", ";">>

(* The source is a constant enum declaration, exported or not. *)
IsConstEnumSource ==
    /\ lexOut.st = "ok"
    /\ LET types == [i \in 1..Len(lexOut.tokens) |-> lexOut.tokens[i].type]
           from == IF types[1] = "Export" THEN 2 ELSE 1
       IN  /\ Len(types) >= from + 5
           /\ SubSeq(types, from, from + 3) = <<"Const", "Enum", "Identifier", "LeftBrace">>
           /\ SubSeq(types, Len(types) - 1, Len(types)) = <<"RightBrace", "EOF">>

(* C17: a constant enum declaration, exported or not, compiles to the      *)
(* single line  // const enum N - inlined  and nothing else.               *)
C17_ConstEnumInlined ==
    (pc \in {"parsed", "emitted"} /\ IsConstEnumSource)
        => /\ parseOut.st = "ok"
           /\ pc = "emitted" => /\ emitOut.st = "ok"
                                /\ emitOut.output = <<"/", "/", " ", "c", "o", "n", "s", "t", " ", "e", "n", "u", "m", " ", "N", " ", "-", " ", "i", "n", "l", "i", "n", "e", "d", "\n">>

(***************************************************************************)
(* Specification SpecClass: the source is put together from at most        *)
(* MaxClassFragments pieces of a class declaration with decorators, and is *)
(* tokenized, parsed and emitted.                                          *)
(***************************************************************************)
MaxClassFragments == 5

ClassFragments ==
    { <<"@", "d", " ">>, <<"@", "e", ".", "f", "(", "1", ")", " ">>, <<"c", "l", "a", "s", "s", " ", "C", " ", "{", " ">>, <<"x", " ", "=", " ", "1", ";", " ">>, <<"m", "(", ")", " ", "{", " ", "}", " ">>, <<"}", " ">> }

AppendClassFragment ==
    /\ pc = "build"
    /\ fragments < MaxClassFragments
    /\ \E f \in ClassFragments : sourceCode' = sourceCode \o f
    /\ fragments' = fragments + 1
    /\ UNCHANGED <<pc, lexOut, options, parseOut, checkOut, emitOut, result, stages,
                   reLex, reParse>>
    /\ UNCHANGED typeVars /\ UNCHANGED checkVars

NextClass == AppendClassFragment \/ ParseSource \/ EmitProgram

SpecClass == InitPipeline /\ [][NextClass]_vars

(* The least position at or after from where text occurs in output, or 0   *)
(* when there is none.                                                     *)
IndexOf(output, text, from) ==
    LET at == { i \in from..(Len(output) - Len(text) + 1) :
                  SubSeq(output, i, i + Len(text) - 1) = text }
    IN  IF at = {} THEN 0 ELSE CHOOSE i \in at : \A j \in at : i <= j

(* The position after the decorators, printed as @ and the expression,     *)
(* found one after the other in output from position from on; 0 when one   *)
(* of them is not found.                                                   *)
RECURSIVE AfterDecorators(_, _, _)
AfterDecorators(output, decorators, from) ==
    IF decorators = <<>> THEN from
    ELSE LET text == <<"@">> \o emitExpression(Head(decorators).expression).text
             at == IndexOf(output, text, from)
         IN  IF at = 0 THEN 0
             ELSE AfterDecorators(output, Tail(decorators), at + Len(text))

(* The decorators of a declaration or member come in output from position  *)
(* from on, in their order, and the text of what they decorate after them. *)
PrintedBefore(output, decorators, from, text) ==
    LET after == AfterDecorators(output, decorators, from) IN
    /\ after # 0
    /\ IndexOf(output, text, after) # 0

(* C16: the emitted text of a class declaration holds each decorator of    *)
(* the class and of its members as @ and its printed expression, in source *)
(* order, before the class or the member it decorates.                     *)
C16_DecoratorsPrinted ==
    (/\ pc = "emitted"
     /\ Len(parseOut.node.statements) = 1
     /\ parseOut.node.statements[1].kind = "ClassDeclaration")
        => LET decl == parseOut.node.statements[1]
               output == emitOut.output
           IN  /\ emitOut.st = "ok"
               /\ decl.decorators # <<>>
                      => PrintedBefore(output, decl.decorators, 1, <<"c", "l", "a", "s", "s", " ">> \o decl.name)
               /\ \A i \in 1..Len(decl.members) :
                      decl.members[i].decorators # <<>>
                          => PrintedBefore(output, decl.members[i].decorators, 1,
                                           decl.members[i].name)

(***************************************************************************)
(* Specification SpecTemplate: a text that opens a template literal is     *)
(* continued piece by piece with at most MaxTemplatePieces pieces and      *)
(* handed to tokenize.                                                     *)
(***************************************************************************)
MaxTemplatePieces == 7
TemplatePieces == {<<BACKTICK>>, <<"$", "{">>, <<"{">>, <<"}">>, <<"a">>}

InitTemplate ==
    /\ sourceCode = <<BACKTICK>> /\ fragments = 0
    /\ pc = "build"
    /\ lexOut = None
    /\ options = None /\ parseOut = None /\ checkOut = None /\ emitOut = None
    /\ result = None /\ stages = <<>> /\ reLex = None /\ reParse = None
    /\ srcType = None /\ tgtType = None /\ assignOut = None
    /\ checker = None /\ checked = 0

AppendPiece ==
    /\ pc = "build"
    /\ fragments < MaxTemplatePieces
    /\ \E p \in TemplatePieces : sourceCode' = sourceCode \o p
    /\ fragments' = fragments + 1
    /\ UNCHANGED <<pc, lexOut, options, parseOut, checkOut, emitOut, result, stages,
                   reLex, reParse>>
    /\ UNCHANGED typeVars /\ UNCHANGED checkVars

NextTemplate == AppendPiece \/ Tokenize

SpecTemplate == InitTemplate /\ [][NextTemplate]_vars

(* The parts of a template literal that starts at src[1]: its texts and    *)
(* the texts of its interpolations in turn, split at each `${` and at the  *)
(* brace that balances it, up to the closing backtick at src[end].         *)
(* depth = 0 inside the text of the literal.                               *)
RECURSIVE TemplateParts(_, _, _, _, _)
TemplateParts(src, i, depth, cur, segs) ==
    IF i > Len(src) THEN [closed |-> FALSE]
    ELSE IF depth = 0
    THEN IF src[i] = BACKTICK
         THEN [closed |-> TRUE, end |-> i, segs |-> Append(segs, cur)]
         ELSE IF src[i] = "$" /\ i < Len(src) /\ src[i + 1] = "{"
         THEN TemplateParts(src, i + 2, 1, <<>>, Append(segs, cur))
         ELSE TemplateParts(src, i + 1, 0, Append(cur, src[i]), segs)
    ELSE IF src[i] = BACKTICK THEN [closed |-> FALSE]
    ELSE IF src[i] = "{" THEN TemplateParts(src, i + 1, depth + 1, Append(cur, src[i]), segs)
    ELSE IF src[i] = "}" /\ depth = 1
    THEN TemplateParts(src, i + 1, 0, <<>>, Append(segs, cur))
    ELSE IF src[i] = "}"
    THEN TemplateParts(src, i + 1, depth - 1, Append(cur, src[i]), segs)
    ELSE TemplateParts(src, i + 1, depth, Append(cur, src[i]), segs)

PartsOf(src) == TemplateParts(src, 2, 0, <<>>, <<>>)

(* The source is one terminated template literal whose interpolations hold *)
(* no template literal and are texts that tokenize accepts.                *)
OneTemplate(src) ==
    /\ PartsOf(src).closed
    /\ PartsOf(src).end = Len(src)
    /\ \A k \in 1..Len(PartsOf(src).segs) :
           k % 2 = 0 => tokenize(PartsOf(src).segs[k]).st = "ok"

TemplateToken(type, value) == [type |-> type, value |-> value, line |-> 1]

(* The tokens of an interpolation: what tokenize makes of its text,        *)
(* without the end-of-file token.                                          *)
ExpressionTokens(text) ==
    LET ts == tokenize(text).tokens IN SubSeq(ts, 1, Len(ts) - 1)

RECURSIVE TemplateTokens(_, _)
TemplateTokens(segs, k) ==
    IF k > Len(segs) THEN <<>>
    ELSE IF k % 2 = 0 THEN ExpressionTokens(segs[k]) \o TemplateTokens(segs, k + 1)
    ELSE <<TemplateToken(IF Len(segs) = 1 THEN "TemplateLiteral"
                         ELSE IF k = 1 THEN "TemplateHead"
                         ELSE IF k = Len(segs) THEN "TemplateTail"
                         ELSE "TemplateMiddle", segs[k])>>
         \o TemplateTokens(segs, k + 1)

(* C30: a terminated template literal yields one TemplateLiteral token, or *)
(* a TemplateHead, the tokens of each interpolation separated by           *)
(* TemplateMiddle tokens, and a TemplateTail; an interpolation ends at the *)
(* brace that balances its `${`, and that brace is not a token.            *)
C30_TemplateTokens ==
    (pc = "lexed" /\ OneTemplate(sourceCode)) =>
        /\ lexOut.st = "ok"
        /\ lexOut.tokens = TemplateTokens(PartsOf(sourceCode).segs, 1)
                               \o <<TemplateToken("EOF", <<>>)>>

(* Two interpolations, one of them with braces of its own. *)
C30_Witness ==
    /\ pc = "lexed" /\ OneTemplate(sourceCode)
    /\ Len(PartsOf(sourceCode).segs) = 5
    /\ \E k \in {2, 4} : \E i \in 1..Len(PartsOf(sourceCode).segs[k]) :
           PartsOf(sourceCode).segs[k][i] = "{"
    /\ TokenCount(lexOut.tokens, "TemplateMiddle") = 1

(***************************************************************************)
(* Specification SpecSpeculate: an expression statement is built from at   *)
(* most MaxSpeculateFragments pieces among parentheses, a name, `<`, `>`   *)
(* and `=>`, with at most MaxParens opening parentheses, then tokenized    *)
(* and parsed.                                                             *)
(***************************************************************************)
MaxSpeculateFragments == 6
MaxParens == 2
SpeculateFragments ==
    { <<"(">>, <<")", " ">>, <<"a">>, <<" ", "<", " ">>, <<" ", ">", " ">>, <<" ", "=", ">", " ">>, <<";", " ">> }

AppendSpeculateFragment ==
    /\ pc = "build"
    /\ fragments < MaxSpeculateFragments
    /\ \E f \in SpeculateFragments :
          /\ Cardinality({i \in 1..Len(sourceCode \o f) : (sourceCode \o f)[i] = "("}) <= MaxParens
          /\ sourceCode' = sourceCode \o f
    /\ fragments' = fragments + 1
    /\ UNCHANGED <<pc, lexOut, options, parseOut, checkOut, emitOut, result, stages,
                   reLex, reParse>>
    /\ UNCHANGED typeVars /\ UNCHANGED checkVars

NextSpeculate == AppendSpeculateFragment \/ ParseSource

SpecSpeculate == InitPipeline /\ [][NextSpeculate]_vars

(* The attempt found no arrow function, or no call with type arguments. *)
Failed(attempt) == attempt.st = "throw" \/ (attempt.st = "ok" /\ attempt.node = Undefined)

(* The expression a type-argument attempt is made after. *)
Callee == [kind |-> "Identifier", name |-> <<"a">>, line |-> 1]

(* The positions of the tokens `(` and `<` at which parse can speculate:   *)
(* a `(` where a primary expression starts, a `<` after a name.            *)
Cursors(toks) == 0..(Len(toks) - 2)

(* C29: when the arrow-function attempt at `(` or the type-argument        *)
(* attempt at `<` fails, the cursor is reset to the value saved before the *)
(* attempt and the alternative is parsed from there: the parenthesized     *)
(* expression is the expression after the `(`, and the expression before   *)
(* the `<` is returned with the cursor at the `<`.  The cursor never moves *)
(* past the end-of-file token.                                             *)
C29_SpeculationRestores ==
    pc = "parsed" =>
        /\ \A p \in Cursors(lexOut.tokens) :
               (/\ check(lexOut.tokens, p, "LeftParen")
                /\ Failed(Rule("TryArrowFunction", <<lexOut.tokens, p>>))
                /\ Rule("parseExpression", <<lexOut.tokens, p + 1>>).st = "ok")
               => LET x == Rule("parseExpression", <<lexOut.tokens, p + 1>>)
                      r == Rule("parseParenthesizedOrArrowFunction", <<lexOut.tokens, p>>)
                  IN  IF check(lexOut.tokens, x.pos, "RightParen")
                      THEN /\ r.st = "ok" /\ r.pos = x.pos + 1
                           /\ r.node.kind = "ParenthesizedExpression"
                           /\ r.node.expression = x.node
                      ELSE r.st = "throw" /\ r.pos = x.pos
        /\ \A p \in Cursors(lexOut.tokens) :
               (/\ check(lexOut.tokens, p, "LessThan")
                /\ Failed(Rule("TryTypeArguments", <<lexOut.tokens, p, Callee>>)))
               => Rule("parseCallMemberExpression", <<lexOut.tokens, p, Callee>>)
                      = POk(p, Callee)
        /\ parseOut.pos <= Len(lexOut.tokens) - 1

(* Both attempts failed in one statement that parse accepted: the attempt  *)
(* at `(` after it had moved the cursor, the attempt at `<` after it had   *)
(* read type arguments.                                                    *)
C29_Witness ==
    /\ pc = "parsed" /\ parseOut.st = "ok"
    /\ check(lexOut.tokens, 0, "LeftParen")
    /\ Failed(Rule("TryArrowFunction", <<lexOut.tokens, 0>>))
    /\ Rule("TryArrowFunction", <<lexOut.tokens, 0>>).pos > 1
    /\ check(lexOut.tokens, 2, "LessThan")
    /\ Failed(Rule("TryTypeArguments", <<lexOut.tokens, 2, Callee>>))
    /\ Rule("TryTypeArguments", <<lexOut.tokens, 2, Callee>>).pos > 3

(***************************************************************************)
(* Specification SpecDecorator: the source is put together from at most    *)
(* MaxDecoratorFragments pieces among a decorator, `export`, `abstract`    *)
(* and a class, enum, variable and expression statement, then tokenized    *)
(* and parsed.                                                             *)
(***************************************************************************)
MaxDecoratorFragments == 4

DecoratorFragments ==
    { <<"@", "d", " ">>, <<"e", "x", "p", "o", "r", "t", " ">>, <<"a", "b", "s", "t", "r", "a", "c", "t", " ">>, <<"c", "l", "a", "s", "s", " ", "C", " ", "{", " ", "}", " ">>, <<"e", "n", "u", "m", " ", "E", " ", "{", " ", "}", " ">>,
      <<"l", "e", "t", " ", "x", " ", "=", " ", "1", ";", " ">>, <<"x", ";", " ">> }

AppendDecoratorFragment ==
    /\ pc = "build"
    /\ fragments < MaxDecoratorFragments
    /\ \E f \in DecoratorFragments : sourceCode' = sourceCode \o f
    /\ fragments' = fragments + 1
    /\ UNCHANGED <<pc, lexOut, options, parseOut, checkOut, emitOut, result, stages,
                   reLex, reParse>>
    /\ UNCHANGED typeVars /\ UNCHANGED checkVars

NextDecorator == AppendDecoratorFragment \/ ParseSource

SpecDecorator == InitPipeline /\ [][NextDecorator]_vars

(* A class declaration, possibly abstract or exported, starts at pos. *)
ClassFollows(toks, pos) ==
    LET p == IF check(toks, pos, "Export") THEN pos + 1 ELSE pos IN
    \/ check(toks, p, "Class")
    \/ check(toks, p, "Abstract") /\ check(toks, p + 1, "Class")

(* C27: when the decorators that a source starts with precede anything     *)
(* but a class declaration, possibly abstract or exported, parse throws a  *)
(* syntax error.                                                           *)
C27_DecoratorsOnlyBeforeClasses ==
    (/\ pc = "parsed" /\ lexOut.st = "ok"
     /\ check(lexOut.tokens, 0, "At")
     /\ Rule("parseDecorators", <<lexOut.tokens, 0, <<>>>>).st = "ok"
     /\ ~ClassFollows(lexOut.tokens,
                      Rule("parseDecorators", <<lexOut.tokens, 0, <<>>>>).pos))
        => parseOut.st = "throw"

(***************************************************************************)
(* Specification SpecRest: a program of at most MaxRestStatements          *)
(* statements among the declaration of a function with a rest parameter    *)
(* and calls of it, tokenized, parsed and given to typeCheck.              *)
(***************************************************************************)
MaxRestStatements == 3

RestFragments ==
    { <<"f", "u", "n", "c", "t", "i", "o", "n", " ", "g", "(", "a", ":", " ", "n", "u", "m", "b", "e", "r", ",", " ", ".", ".", ".", "r", ":", " ", "s", "t", "r", "i", "n", "g", "[", "]", ")", " ", "{", " ", "}", " ">>,
      <<"g", "(", ")", ";", " ">>, <<"g", "(", "1", ")", ";", " ">>, <<"g", "(", "1", ",", " ", "\"", "a", "\"", ")", ";", " ">>, <<"g", "(", "1", ",", " ", "2", ")", ";", " ">>,
      <<"g", "(", "1", ",", " ", "\"", "a", "\"", ",", " ", "\"", "b", "\"", ")", ";", " ">> }

AppendRestStatement ==
    /\ pc = "build"
    /\ fragments < MaxRestStatements
    /\ \E f \in RestFragments : sourceCode' = sourceCode \o f
    /\ fragments' = fragments + 1
    /\ UNCHANGED <<pc, lexOut, options, parseOut, checkOut, emitOut, result, stages,
                   reLex, reParse>>
    /\ UNCHANGED typeVars /\ UNCHANGED checkVars

NextRest ==
    AppendRestStatement \/ ParseSource \/ NewTypeChecker \/ CheckStatement \/ ReturnErrors

SpecRest == InitPipeline /\ [][NextRest]_vars

(* The function declarations of the program whose last parameter is a rest *)
(* parameter, and the calls of the function named name.                    *)
RestFunctions ==
    { i \in 1..Len(parseOut.node.statements) :
        LET stmt == parseOut.node.statements[i] IN
        /\ stmt.kind = "FunctionDeclaration"
        /\ stmt.parameters # <<>>
        /\ stmt.parameters[Len(stmt.parameters)].rest }
CallsOf(name) ==
    { i \in 1..Len(parseOut.node.statements) :
        LET stmt == parseOut.node.statements[i] IN
        /\ stmt.kind = "ExpressionStatement"
        /\ stmt.expression.kind = "CallExpression"
        /\ stmt.expression.callee.kind = "Identifier"
        /\ stmt.expression.callee.name = name }

(* C22: for the function declared with a rest parameter, a call is         *)
(* reported for its argument count only when it has fewer arguments than   *)
(* the parameters before the rest parameter that are not optional, never   *)
(* with 'Expected at most', and an argument at the rest position is not    *)
(* compared with the declared type of the rest parameter.                  *)
C22_RestParameters ==
    (pc = "checked" /\ Cardinality(RestFunctions) = 1)
        => \A f \in RestFunctions :
               LET decl == parseOut.node.statements[f]
                   before == Len(decl.parameters) - 1
                   required == Cardinality({ i \in 1..before : ~decl.parameters[i].optional })
                   ArgumentsOf(i) == parseOut.node.statements[i].expression.arguments
               IN  /\ Diagnostics(checkOut, AtMost) = 0
                   /\ Diagnostics(checkOut, AtLeast)
                          = Cardinality({ i \in CallsOf(decl.name) :
                                            Len(ArgumentsOf(i)) < required })
                   /\ Diagnostics(checkOut, ArgumentNotAssignable)
                          = Cardinality({ i \in CallsOf(decl.name) :
                                            \E k \in 1..before :
                                                /\ k <= Len(ArgumentsOf(i))
                                                /\ ArgumentsOf(i)[k].kind # "NumericLiteral" })

(***************************************************************************)
(* Specification SpecOrder: a program of at most MaxOrderStatements        *)
(* top-level declarations of type aliases, interfaces, a class, an enum    *)
(* and a function that refer to one another, in any order, tokenized,      *)
(* parsed and given to typeCheck.                                          *)
(***************************************************************************)
MaxOrderStatements == 3

OrderFragments ==
    { <<"t", "y", "p", "e", " ", "A", " ", "=", " ", "B", ";", " ">>, <<"t", "y", "p", "e", " ", "B", " ", "=", " ", "n", "u", "m", "b", "e", "r", ";", " ">>, <<"t", "y", "p", "e", " ", "T", " ", "=", " ", "E", ";", " ">>,
      <<"i", "n", "t", "e", "r", "f", "a", "c", "e", " ", "I", " ", "{", " ", "a", ":", " ", "A", ";", " ", "}", " ">>, <<"i", "n", "t", "e", "r", "f", "a", "c", "e", " ", "J", " ", "{", " ", "i", ":", " ", "I", ";", " ", "k", ":", " ", "K", ";", " ", "}", " ">>,
      <<"c", "l", "a", "s", "s", " ", "K", " ", "{", " ", "b", ":", " ", "B", ";", " ", "}", " ">>, <<"e", "n", "u", "m", " ", "E", " ", "{", " ", "M", " ", "}", " ">>,
      <<"f", "u", "n", "c", "t", "i", "o", "n", " ", "h", "(", "p", ":", " ", "K", ")", ":", " ", "I", " ", "{", " ", "}", " ">> }

AppendDeclaration ==
    /\ pc = "build"
    /\ fragments < MaxOrderStatements
    /\ \E f \in OrderFragments : sourceCode' = sourceCode \o f
    /\ fragments' = fragments + 1
    /\ UNCHANGED <<pc, lexOut, options, parseOut, checkOut, emitOut, result, stages,
                   reLex, reParse>>
    /\ UNCHANGED typeVars /\ UNCHANGED checkVars

NextOrder ==
    AppendDeclaration \/ ParseSource \/ NewTypeChecker \/ CheckStatement \/ ReturnErrors

SpecOrder == InitPipeline /\ [][NextOrder]_vars

CannotFindTypeName == "Cannot find name '${node.typeName}'"

(* The names of the type aliases, enums, interfaces and classes that the   *)
(* program declares at top level.                                          *)
TopLevelTypeNames(program) ==
    { program.statements[i].name :
        i \in { j \in 1..Len(program.statements) :
                  program.statements[j].kind \in
                      {"TypeAliasDeclaration", "EnumDeclaration",
                       "InterfaceDeclaration", "ClassDeclaration"} } }

(* The program with its top-level statements in the opposite order. *)
Reversed(program) ==
    [program EXCEPT !.statements =
        [i \in 1..Len(@) |-> @[Len(@) + 1 - i]]]

(* C23: no 'Cannot find name' diagnostic names a type alias, enum,         *)
(* interface or class that the program declares at top level, and the      *)
(* program with its declarations in the opposite order gets as many        *)
(* diagnostics.                                                            *)
C23_OrderIndependent ==
    pc = "checked"
        => /\ \A i \in 1..Len(checkOut.errors) :
                  checkOut.errors[i].message.text = CannotFindTypeName
                      => checkOut.errors[i].message.args[1]
                             \notin TopLevelTypeNames(parseOut.node)
           /\ Len(typeCheck(Reversed(parseOut.node)).errors) = Len(checkOut.errors)

(***************************************************************************)
(* Specification SpecMembers: a program of at most MaxMemberFragments      *)
(* pieces among the declaration of a class D with an instance and a static *)
(* member, of a class C that extends it, and accesses to members through   *)
(* an instance and through the class name, tokenized, parsed and given to  *)
(* typeCheck.                                                              *)
(***************************************************************************)
MaxMemberFragments == 3

MemberFragments ==
    { <<"c", "l", "a", "s", "s", " ", "D", " ", "{", " ", "x", ":", " ", "n", "u", "m", "b", "e", "r", ";", " ", "s", "t", "a", "t", "i", "c", " ", "s", ":", " ", "n", "u", "m", "b", "e", "r", ";", " ", "}", " ">>,
      <<"c", "l", "a", "s", "s", " ", "C", " ", "e", "x", "t", "e", "n", "d", "s", " ", "D", " ", "{", " ", "}", " ">>,
      <<"c", "l", "a", "s", "s", " ", "C", " ", "e", "x", "t", "e", "n", "d", "s", " ", "D", " ", "{", " ", "x", ":", " ", "s", "t", "r", "i", "n", "g", ";", " ", "s", "t", "a", "t", "i", "c", " ", "t", ":", " ", "n", "u", "m", "b", "e", "r", ";", " ", "}", " ">>,
      <<"l", "e", "t", " ", "c", ":", " ", "C", ";", " ", "c", ".", "x", ";", " ">>, <<"l", "e", "t", " ", "d", ":", " ", "D", ";", " ", "d", ".", "x", ";", " ">>, <<"l", "e", "t", " ", "d", ":", " ", "D", ";", " ", "d", ".", "y", ";", " ">>,
      <<"D", ".", "s", ";", " ">>, <<"D", ".", "y", ";", " ">>, <<"C", ".", "t", ";", " ">> }

AppendMemberFragment ==
    /\ pc = "build"
    /\ fragments < MaxMemberFragments
    /\ \E f \in MemberFragments : sourceCode' = sourceCode \o f
    /\ fragments' = fragments + 1
    /\ UNCHANGED <<pc, lexOut, options, parseOut, checkOut, emitOut, result, stages,
                   reLex, reParse>>
    /\ UNCHANGED typeVars /\ UNCHANGED checkVars

NextMembers ==
    AppendMemberFragment \/ ParseSource \/ NewTypeChecker \/ CheckStatement \/ ReturnErrors

SpecMembers == InitPipeline /\ [][NextMembers]_vars

DoesNotExist == "Property '${expr.property}' does not exist on type '${objectType.name}'"

(* The top-level class declarations of the program, and those of a name. *)
ClassDeclarations ==
    { i \in 1..Len(parseOut.node.statements) :
        parseOut.node.statements[i].kind = "ClassDeclaration" }
ClassesNamed(name) ==
    { i \in ClassDeclarations : parseOut.node.statements[i].name = name }
(* The names of the members that a class declaration declares itself. *)
OwnMembers(decl, static) ==
    { decl.members[k].name :
        k \in { j \in 1..Len(decl.members) : decl.members[j].isStatic = static } }
Keys(map) == { map[k].key : k \in 1..Len(map) }

(* C24: for top-level classes C and D, each declared once, where C extends *)
(* D, the registered instance members of C hold every instance member of D *)
(* (that of C itself where C declares the name), its static members every  *)
(* static member of D, and no 'does not exist' diagnostic names an         *)
(* instance member of D on type C.                                         *)
C24_InheritedMembers ==
    pc = "checked"
        => \A c \in ClassDeclarations : \A d \in ClassDeclarations :
               LET C0 == parseOut.node.statements[c]
                   D0 == parseOut.node.statements[d]
                   TC == lookupType(checkOut, C0.name)
                   TD == lookupType(checkOut, D0.name)
               IN  (/\ Cardinality(ClassesNamed(C0.name)) = 1
                    /\ Cardinality(ClassesNamed(D0.name)) = 1
                    /\ C0.superClass # Undefined
                    /\ C0.superClass.kind = "Identifier"
                    /\ C0.superClass.name = D0.name)
                   => /\ \A k \in 1..Len(TD.members) :
                             /\ MapHas(TC.members, TD.members[k].key)
                             /\ TD.members[k].key \notin OwnMembers(C0, FALSE)
                                    => MapGet(TC.members, TD.members[k].key) = TD.members[k]
                      /\ \A k \in 1..Len(TD.staticMembers) :
                             MapHas(TC.staticMembers, TD.staticMembers[k].key)
                      /\ \A i \in 1..Len(checkOut.errors) :
                             (/\ checkOut.errors[i].message.text = DoesNotExist
                              /\ checkOut.errors[i].message.args[2] = C0.name)
                                 => checkOut.errors[i].message.args[1] \notin Keys(TD.members)

(* The accesses `o.p;` of the program to a property through the variable   *)
(* or class named by one of names.                                         *)
Accesses(names) ==
    { i \in 1..Len(parseOut.node.statements) :
        LET stmt == parseOut.node.statements[i] IN
        /\ stmt.kind = "ExpressionStatement"
        /\ stmt.expression.kind = "MemberExpression"
        /\ stmt.expression.object.kind = "Identifier"
        /\ stmt.expression.object.name \in names }

(* C25: when the program declares the class D once, the 'does not exist'   *)
(* diagnostics on type D are one for each access, through the instance d   *)
(* or the class name D, to a name that D declares neither as an instance   *)
(* nor as a static member.                                                 *)
C25_MemberAccess ==
    (pc = "checked" /\ Cardinality(ClassesNamed(<<"D">>)) = 1)
        => LET D0 == parseOut.node.statements[CHOOSE d \in ClassesNamed(<<"D">>) : TRUE]
               declared == OwnMembers(D0, FALSE) \cup OwnMembers(D0, TRUE)
           IN  Cardinality({ i \in 1..Len(checkOut.errors) :
                               /\ checkOut.errors[i].message.text = DoesNotExist
                               /\ checkOut.errors[i].message.args[2] = <<"D">> })
                   = Cardinality({ i \in Accesses({<<"d">>, <<"D">>}) :
                                     parseOut.node.statements[i].expression.property
                                         \notin declared })

(***************************************************************************)
(* Specification SpecScope: a program of at most MaxScopeFragments pieces  *)
(* among a global variable v, a function f, a block or a function h that   *)
(* binds w around a function declaration, an arrow function, a function    *)
(* expression or a method whose body reads v, w and its parameter p, and   *)
(* blocks, loops and returns, tokenized, parsed and given to typeCheck     *)
(* statement by statement.                                                 *)
(***************************************************************************)
MaxScopeFragments == 3

ScopeFragments ==
    { <<"l", "e", "t", " ", "v", " ", "=", " ", "1", ";", " ">>,
      <<"f", "u", "n", "c", "t", "i", "o", "n", " ", "f", "(", "p", ")", " ", "{", " ", "v", ";", " ", "p", ";", " ", "}", " ">>,
      <<"{", " ", "l", "e", "t", " ", "w", " ", "=", " ", "1", ";", " ", "f", "u", "n", "c", "t", "i", "o", "n", " ", "f", "(", "p", ")", " ", "{", " ", "v", ";", " ", "w", ";", " ", "p", ";", " ", "}", " ", "}", " ">>,
      <<"{", " ", "l", "e", "t", " ", "w", " ", "=", " ", "1", ";", " ", "c", "o", "n", "s", "t", " ", "a", " ", "=", " ", "(", "p", ")", " ", "=", ">", " ", "{", " ", "v", ";", " ", "w", ";", " ", "p", ";", " ", "}", ";", " ", "}", " ">>,
      <<"{", " ", "l", "e", "t", " ", "w", " ", "=", " ", "1", ";", " ", "c", "o", "n", "s", "t", " ", "e", " ", "=", " ", "f", "u", "n", "c", "t", "i", "o", "n", " ", "(", "p", ")", " ", "{", " ", "v", ";", " ", "w", ";", " ", "p", ";", " ", "}", ";", " ", "}", " ">>,
      <<"{", " ", "l", "e", "t", " ", "w", " ", "=", " ", "1", ";", " ", "c", "l", "a", "s", "s", " ", "M", " ", "{", " ", "m", "(", "p", ")", " ", "{", " ", "v", ";", " ", "w", ";", " ", "p", ";", " ", "}", " ", "}", " ", "}", " ">>,
      <<"f", "u", "n", "c", "t", "i", "o", "n", " ", "h", "(", "w", ")", " ", "{", " ", "c", "o", "n", "s", "t", " ", "a", " ", "=", " ", "(", "p", ")", " ", "=", ">", " ", "{", " ", "v", ";", " ", "w", ";", " ", "p", ";", " ", "}", ";", " ", "}", " ">>,
      <<"f", "u", "n", "c", "t", "i", "o", "n", " ", "h", "(", "w", ")", " ", "{", " ", "c", "l", "a", "s", "s", " ", "M", " ", "{", " ", "m", "(", "p", ")", " ", "{", " ", "v", ";", " ", "w", ";", " ", "p", ";", " ", "}", " ", "}", " ", "}", " ">>,
      <<"{", " ", "l", "e", "t", " ", "w", " ", "=", " ", "1", ";", " ", "}", " ", "w", ";", " ">>,
      <<"f", "o", "r", " ", "(", "l", "e", "t", " ", "i", " ", "=", " ", "0", ";", " ", "i", " ", "<", " ", "1", ";", " ", "i", "+", "+", ")", " ", "{", " ", "l", "e", "t", " ", "w", " ", "=", " ", "i", ";", " ", "}", " ", "f", "o", "r", " ", "(", "c", "o", "n", "s", "t", " ", "x", " ", "o", "f", " ", "v", ")", " ", "{", " ", "l", "e", "t", " ", "w", " ", "=", " ", "x", ";", " ", "}", " ", "f", "o", "r", " ", "(", "c", "o", "n", "s", "t", " ", "k", " ", "i", "n", " ", "v", ")", " ", "{", " ", "l", "e", "t", " ", "w", " ", "=", " ", "k", ";", " ", "}", " ">>,
      <<"c", "o", "n", "s", "t", " ", "b", " ", "=", " ", "f", "u", "n", "c", "t", "i", "o", "n", " ", "(", "p", ")", ":", " ", "n", "u", "m", "b", "e", "r", " ", "{", " ", "w", "h", "i", "l", "e", " ", "(", "p", ")", " ", "{", " ", "r", "e", "t", "u", "r", "n", " ", "p", ";", " ", "}", " ", "r", "e", "t", "u", "r", "n", " ", "1", ";", " ", "}", ";", " ">> }

AppendScopeFragment ==
    /\ pc = "build"
    /\ fragments < MaxScopeFragments
    /\ \E f \in ScopeFragments : sourceCode' = sourceCode \o f
    /\ fragments' = fragments + 1
    /\ UNCHANGED <<pc, lexOut, options, parseOut, checkOut, emitOut, result, stages,
                   reLex, reParse>>
    /\ UNCHANGED typeVars /\ UNCHANGED checkVars

NextScope ==
    AppendScopeFragment \/ ParseSource \/ NewTypeChecker \/ CheckStatement \/ ReturnErrors

SpecScope == InitPipeline /\ [][NextScope]_vars

CannotFindName == "Cannot find name '${expr.name}'"

(* The names of the 'Cannot find name' diagnostics among errors from..to   *)
(* of a checker.                                                           *)
NamesNotFound(C, from, to) ==
    { C.errors[i].message.args[1] :
        i \in { j \in from..to : C.errors[j].message.text = CannotFindName } }
(* Those that the step under way adds. *)
AddedNames == NamesNotFound(checker', Len(checker.errors) + 1, Len(checker'.errors))

(* A top-level statement that binds w in a scope that is not the global    *)
(* one, a block `{ let w = 1; X }` or a function `function h(w) { X }`,    *)
(* and the statement X inside it.                                          *)
IsEnclosure(stmt) ==
    \/ /\ stmt.kind = "BlockStatement"
       /\ Len(stmt.statements) = 2
       /\ stmt.statements[1].kind = "VariableDeclaration"
       /\ stmt.statements[1].name = <<"w">>
    \/ /\ stmt.kind = "FunctionDeclaration"
       /\ stmt.name = <<"h">>
Inner(stmt) ==
    IF stmt.kind = "BlockStatement" THEN stmt.statements[2] ELSE stmt.body.statements[1]

(* X declares a variable whose initializer is an arrow function or a       *)
(* function expression.                                                    *)
IsLexical(X) ==
    /\ X.kind = "VariableDeclaration"
    /\ X.initializer.kind \in {"ArrowFunction", "FunctionExpression"}
(* X is a function declaration or a class declaration (with a method). *)
IsGlobalParented(X) == X.kind \in {"FunctionDeclaration", "ClassDeclaration"}
(* The body inside X is checked: that of a function declaration only when  *)
(* the global environment holds a function of its name.                    *)
BodyChecked(C, X) ==
    X.kind = "FunctionDeclaration"
        => /\ MapHas(C.envs[1], X.name)
           /\ MapGet(C.envs[1], X.name).kind = "function"

TopLevelKinds ==
    { parseOut.node.statements[i].kind : i \in 1..Len(parseOut.node.statements) }
(* The statements inside the enclosures of the program. *)
Enclosed ==
    { Inner(parseOut.node.statements[i]) :
        i \in { j \in 1..Len(parseOut.node.statements) :
                  IsEnclosure(parseOut.node.statements[j]) } }

EnvKeys(env) == { env[k].key : k \in 1..Len(env) }
(* The names that a statement defines in the environment it is checked in. *)
DefinedBy(stmt) == IF stmt.kind = "VariableDeclaration" THEN {stmt.name} ELSE {}

(* A checker inside a function body inside a loop: one more environment,   *)
(* a return type and the in-loop flag set.                                 *)
Nested(C) ==
    [C EXCEPT !.envs = Append(@, <<>>), !.currentReturnType = createNumberType,
              !.inLoop = TRUE]

(* Checker After, the result of checking stmt from checker Before, has the *)
(* current environment, return type and in-loop flag of Before: the same   *)
(* chain of environments, the enclosing ones as they were, the current one *)
(* with no more names than those stmt itself defines in it.                *)
Balanced(Before, After, stmt) ==
    After.st = "ok"
        => LET n == Len(Before.envs) IN
           /\ Len(After.envs) = n
           /\ \A i \in 1..(n - 1) : After.envs[i] = Before.envs[i]
           /\ EnvKeys(Before.envs[n]) \subseteq EnvKeys(After.envs[n])
           /\ EnvKeys(After.envs[n]) \subseteq EnvKeys(Before.envs[n]) \cup DefinedBy(stmt)
           /\ After.currentReturnType = Before.currentReturnType
           /\ After.inLoop = Before.inLoop

=============================================================================
